---------------------------- MODULE Spec2Model ----------------------------
(***************************************************************************)
(* TACA: demultiplexing of Illumina runs (taca/illumina/Runs.py,           *)
(* taca/illumina/Standard_Runs.py), its Element analogue                   *)
(* (taca/element/Element_Runs.py) and the transfer of Nanopore runs        *)
(* (taca/nanopore/instrument_transfer.py).                                 *)
(*                                                                         *)
(* The module holds several specifications over one set of variables:      *)
(*   SpecMask  the base mask compiler, Standard_Run._compute_base_mask     *)
(*   SpecAgg   what the result aggregator merges from the reports and the  *)
(*             statistics of the SubJobs of a run                          *)
(*   SpecRun   the run directory: demultiplex_run, the SubJobs finishing,  *)
(*             check_run_status and the files the aggregation creates      *)
(*   SpecSheet the sample sheets: _copy_samplesheet (_classify_samples,    *)
(*             _generate_clean_samplesheet) and the partition of           *)
(*             demultiplex_run into SubJobs with their samplesheets        *)
(*   SpecClean the loop of _generate_clean_samplesheet, row by row         *)
(*   SpecReports  SpecAgg over SubJob reports whose rows come in any of    *)
(*             the orders of RowOrders                                     *)
(*   SpecStatus   get_run_status over the sentinel files of a run          *)
(*   SpecTransfer handle_runs and final_sync_and_archive for one Nanopore  *)
(*             run, with the rsyncs running in the background              *)
(* Each specification keeps the variables of the others at their idle      *)
(* values.                                                                 *)
(***************************************************************************)
EXTENDS Integers, Sequences, FiniteSets, TLC

VARIABLES
    \* ---- base mask compiler ----
    runSetup,     \* runinfo.get_read_configuration(): the reads of the run
    software,     \* self.software
    bm,           \* the list the last call of _compute_base_mask returned
    maskStatus,   \* "none" | "returned" | "raised": how the last call ended
    maskArgs,     \* the arguments of the last call of _compute_base_mask
    \* ---- result aggregator: what is merged ----
    subjobs,      \* the SubJobs of the run: what each SampleSheet_<n>.csv holds
    globOrder,    \* the order in which glob returns the SubJob samplesheets
    aggStatus,    \* "idle" | "done" | "raised": how the aggregation ended
    merged,       \* the merged reports and statistics of a finished aggregation
    elemStatus,   \* "idle" | "raised": how Element's aggregate_stats_unassigned ended
    elemStart,    \* per lane, the sub-demultiplexing it started from
    elemUnassigned, \* aggregated_unassigned_indexes when it ended
    \* ---- run directory ----
    launched,     \* demultiplex_run has written the samplesheets and started the SubJobs
    finished,     \* the SubJobs whose demultiplexer has ended
    lost,         \* the file the demultiplexer of SubJob 0 has not written, or "none"
    demuxFs,      \* the entries under Demultiplexing/
    attempts,     \* how many times the aggregation has been invoked
    finishedAtStart, \* finished, when the aggregation was last invoked
    fsAtStart,    \* demuxFs, when the last aggregation took its first merge step
    elemRun,      \* "idle" | "raised": how Element's aggregate_demux_results ended
    \* ---- sample sheets ----
    samplesheet,  \* SampleSheetParser(ssname).data: the rows of the sample sheet
    sheetStatus,  \* "none" | "copied" | "KeyError" | "ValueError": _copy_samplesheet
    sample_table, \* self.sample_table
    ssdata,       \* self.runParserObj.samplesheet.data: the rows of SampleSheet.csv
    jobs,         \* the SubJobs of the last demultiplex_run, by bcl_cmd_counter
    demuxStatus,  \* "none" | "returned" | "raised": how the last demultiplex_run ended
    demuxRuns,    \* how many times demultiplex_run was called
    firstJobs,    \* jobs, after the first call of demultiplex_run
    cleanData,    \* ssparser.data inside _generate_clean_samplesheet
    cleanPos,     \* the position of its loop over ssparser.data, 0 when it is over
    \* ---- status of a run ----
    runFiles,     \* the sentinel files and directories of the run directory
    polledFiles,  \* runFiles, at the last call of get_run_status
    runStatus,    \* what the last call of get_run_status returned
    \* ---- transfer of a Nanopore run ----
    seqFinished,  \* the run directory has a final_summary file
    syncing,      \* the destinations an rsync of the run is running to
    indicator,    \* .sync_finished is in the run directory
    runAt,        \* "instrument" | "archive": where the run directory is
    transferLog,  \* the steps of the calls of final_sync_and_archive
    transferCalls \* how many times final_sync_and_archive was called

maskVars == <<runSetup, software, bm, maskStatus, maskArgs>>

aggVars == <<subjobs, globOrder, aggStatus, merged,
             elemStatus, elemStart, elemUnassigned>>

runVars == <<launched, finished, lost, demuxFs, attempts,
             finishedAtStart, fsAtStart, elemRun>>

sheetVars == <<samplesheet, sheetStatus, sample_table, ssdata, jobs, demuxStatus,
               demuxRuns, firstJobs, cleanData, cleanPos>>

statusVars == <<runFiles, polledFiles, runStatus>>

transferVars == <<seqFinished, syncing, indicator, runAt, transferLog, transferCalls>>

vars == <<runSetup, software, bm, maskStatus, maskArgs,
          subjobs, globOrder, aggStatus, merged,
          elemStatus, elemStart, elemUnassigned,
          launched, finished, lost, demuxFs, attempts,
          finishedAtStart, fsAtStart, elemRun,
          samplesheet, sheetStatus, sample_table, ssdata, jobs, demuxStatus,
          demuxRuns, firstJobs, cleanData, cleanPos,
          runFiles, polledFiles, runStatus,
          seqFinished, syncing, indicator, runAt, transferLog, transferCalls>>

(***************************************************************************)
(* Bounds of the model.                                                    *)
(***************************************************************************)
MaxIndexCycles == 3
MaxUmi == 2
MaxSubJobs == 3
MaxDemux == 11
MaxAttempts == 2
MaxTransfers == 3

(***************************************************************************)
(* The values the variables of a specification keep while another          *)
(* specification runs.                                                     *)
(***************************************************************************)
IdleMask ==
    /\ runSetup = <<>>
    /\ software = "bcl2fastq"
    /\ bm = <<>>
    /\ maskStatus = "none"
    /\ maskArgs = <<>>

IdleAgg ==
    /\ subjobs = <<>>
    /\ globOrder = <<>>
    /\ aggStatus = "idle"
    /\ merged = <<>>
    /\ elemStatus = "idle"
    /\ elemStart = <<>>
    /\ elemUnassigned = <<>>

IdleRun ==
    /\ launched = FALSE
    /\ finished = {}
    /\ lost = "none"
    /\ demuxFs = {}
    /\ attempts = 0
    /\ finishedAtStart = {}
    /\ fsAtStart = {}
    /\ elemRun = "idle"

IdleSheet ==
    /\ samplesheet = <<>>
    /\ sheetStatus = "none"
    /\ sample_table = <<>>
    /\ ssdata = <<>>
    /\ jobs = <<>>
    /\ demuxStatus = "none"
    /\ demuxRuns = 0
    /\ firstJobs = <<>>
    /\ cleanData = <<>>
    /\ cleanPos = 0

IdleStatus ==
    /\ runFiles = {}
    /\ polledFiles = {}
    /\ runStatus = "none"

IdleTransfer ==
    /\ seqFinished = FALSE
    /\ syncing = {}
    /\ indicator = FALSE
    /\ runAt = "instrument"
    /\ transferLog = <<>>
    /\ transferCalls = 0

(***************************************************************************)
(* Strings are sequences of one-character strings, so that str(n) and the  *)
(* digits read back from a token are computed, not assumed.                *)
(***************************************************************************)
DigitChars == <<"0", "1", "2", "3", "4", "5", "6", "7", "8", "9">>

IsDigit(c) == \E i \in 1..10 : DigitChars[i] = c

DigitVal(c) == (CHOOSE i \in 1..10 : DigitChars[i] = c) - 1

RECURSIVE Str(_)
\* Python's str(n) of an int
Str(n) ==
    IF n < 0 THEN <<"-">> \o Str(0 - n)
    ELSE IF n < 10 THEN <<DigitChars[n + 1]>>
    ELSE Str(n \div 10) \o <<DigitChars[(n % 10) + 1]>>

RECURSIVE SumDigitRuns(_, _, _)
\* sum(int(n) for n in re.findall(r'\d+', token)): cur is the value of the
\* run of digits being read, inRun whether one is being read
SumDigitRuns(s, cur, acc) ==
    IF s = <<>> THEN acc + cur
    ELSE IF IsDigit(Head(s))
         THEN SumDigitRuns(Tail(s), 10 * cur + DigitVal(Head(s)), acc)
         ELSE SumDigitRuns(Tail(s), 0, acc + cur)

TokenSum(token) == SumDigitRuns(token, 0, 0)

(***************************************************************************)
(* Standard_Run._compute_base_mask                                         *)
(***************************************************************************)
SampleTypes ==
    {"ordinary", "short_single_index", "10X_SINGLE", "10X_DUAL",
     "SMARTSEQ", "IDT_UMI", "NOINDEX"}

Softwares == {"bcl2fastq", "bclconvert"}

Raise == <<"!">>

\* DataReadToken with the masked tail given the length of the whole read
DataReadTokenTailIsCycles(cycles, read_size) ==
    IF cycles > read_size
    THEN IF read_size # 0
         THEN <<"Y">> \o Str(read_size) \o <<"N">> \o Str(cycles)
         ELSE <<"N">> \o Str(cycles)
    ELSE <<"Y">> \o Str(cycles)

\* The token of a data read (IsIndexedRead == "N")
DataReadToken(cycles, read_size) ==
    IF cycles > read_size
    THEN IF read_size # 0
         THEN <<"Y">> \o Str(read_size) \o <<"N">> \o Str(cycles - read_size)
         ELSE <<"N">> \o Str(cycles)
    ELSE <<"Y">> \o Str(cycles)

\* The letter of a UMI block: "Y" for bcl2fastq, "U" for bclconvert
UmiLetter(sw) == IF sw = "bcl2fastq" THEN <<"Y">> ELSE <<"U">>

\* The token of an index read of a sample that carries this index: the part
\* shared by the first and the second index read
IndexBlockToken(sw, sample_type, cycles, index_size, umi_size) ==
    LET i_remainder == cycles - index_size IN
    IF i_remainder > 0
    THEN IF sample_type = "IDT_UMI"
         THEN IF umi_size # 0
              THEN IF i_remainder - umi_size > 0
                   THEN IF sw \in Softwares
                        THEN <<"I">> \o Str(index_size) \o UmiLetter(sw)
                             \o Str(umi_size) \o <<"N">>
                             \o Str(i_remainder - umi_size)
                        ELSE Raise
                   ELSE IF i_remainder - umi_size = 0
                        THEN IF sw \in Softwares
                             THEN <<"I">> \o Str(index_size) \o UmiLetter(sw)
                                  \o Str(umi_size)
                             ELSE Raise
                        ELSE Raise
              ELSE <<"I">> \o Str(index_size) \o <<"N">> \o Str(i_remainder)
         ELSE IF index_size = 0
              THEN <<"N">> \o Str(cycles)
              ELSE <<"I">> \o Str(index_size) \o <<"N">> \o Str(i_remainder)
    ELSE <<"I">> \o Str(cycles)

\* The token of the first index read (Number == 2)
Index1Token(sw, sample_type, cycles, index1_size, umi1_size) ==
    IF index1_size > cycles THEN Raise
    ELSE IndexBlockToken(sw, sample_type, cycles, index1_size, umi1_size)

\* Index2Token with an index longer than the read cut to the read
Index2TokenClamped(sw, sample_type, cycles, is_dual_index, index2_size, umi2_size) ==
    IF is_dual_index \/ sample_type = "10X_SINGLE"
    THEN IF sample_type = "10X_SINGLE"
         THEN IF sw \in Softwares THEN UmiLetter(sw) \o Str(cycles)
              ELSE Raise
         ELSE IndexBlockToken(sw, sample_type, cycles, index2_size,
                              umi2_size)
    ELSE <<"N">> \o Str(cycles)

\* The token of the second index read
Index2Token(sw, sample_type, cycles, is_dual_index, index2_size, umi2_size) ==
    IF index2_size > cycles THEN Raise
    ELSE IF is_dual_index \/ sample_type = "10X_SINGLE"
         THEN IF sample_type = "10X_SINGLE"
              THEN IF sw \in Softwares THEN UmiLetter(sw) \o Str(cycles)
                   ELSE Raise
              ELSE IndexBlockToken(sw, sample_type, cycles, index2_size,
                                   umi2_size)
         ELSE <<"N">> \o Str(cycles)

\* The token of one read of the run setup
ReadToken(read, sw, a) ==
    IF read.IsIndexedRead = "N"
    THEN IF read.Number = 1
         THEN DataReadToken(read.NumCycles, a.read1_size)
         ELSE DataReadToken(read.NumCycles, a.read2_size)
    ELSE IF read.Number = 2
         THEN Index1Token(sw, a.sample_type, read.NumCycles, a.index1_size,
                          a.umi1_size)
         ELSE Index2Token(sw, a.sample_type, read.NumCycles, a.is_dual_index,
                          a.index2_size, a.umi2_size)

\* _compute_base_mask: the list of tokens, or Raise when the function raises
ComputeBaseMask(setup, sw, a) ==
    IF Len(setup) > 4 THEN Raise
    ELSE LET toks == [i \in 1..Len(setup) |-> ReadToken(setup[i], sw, a)] IN
         IF \E i \in 1..Len(setup) : toks[i] = Raise THEN Raise ELSE toks

\* The arguments of a call
MaskArgs ==
    [sample_type : SampleTypes,
     index1_size : 0..(MaxIndexCycles + 1),
     is_dual_index : BOOLEAN,
     index2_size : 0..(MaxIndexCycles + 1),
     umi1_size : 0..MaxUmi,
     umi2_size : 0..MaxUmi,
     read1_size : {0, 5, 11, 12},
     read2_size : {0, 5, 11, 12}]

\* Run setups: read 1, up to two index reads, an optional read 2
ReadOf(n, c, ix) == [Number |-> n, NumCycles |-> c, IsIndexedRead |-> ix]

DataCycles == {11}

IndexCycles == 2..MaxIndexCycles

RunSetups ==
    {<<ReadOf(1, r, "N")>> : r \in DataCycles}
    \cup {<<ReadOf(1, r, "N"), ReadOf(2, s, "N")>> :
            r \in DataCycles, s \in DataCycles}
    \cup {<<ReadOf(1, r, "N"), ReadOf(2, i, "Y")>> :
            r \in DataCycles, i \in IndexCycles}
    \cup {<<ReadOf(1, r, "N"), ReadOf(2, i, "Y"), ReadOf(3, s, "N")>> :
            r \in DataCycles, i \in IndexCycles, s \in DataCycles}
    \cup {<<ReadOf(1, r, "N"), ReadOf(2, i, "Y"), ReadOf(3, j, "Y")>> :
            r \in DataCycles, i \in IndexCycles, j \in IndexCycles}
    \cup {<<ReadOf(1, r, "N"), ReadOf(2, i, "Y"), ReadOf(3, j, "Y"),
            ReadOf(4, s, "N")>> :
            r \in DataCycles, i \in IndexCycles, j \in IndexCycles,
            s \in DataCycles}

InitMask ==
    /\ runSetup \in RunSetups
    /\ software \in Softwares
    /\ bm = <<>>
    /\ maskStatus = "none"
    /\ maskArgs = <<>>
    /\ IdleAgg
    /\ IdleRun
    /\ IdleSheet
    /\ IdleStatus
    /\ IdleTransfer

\* One call of _compute_base_mask
CallComputeBaseMask ==
    /\ maskStatus = "none"
    /\ \E a \in MaskArgs :
        LET r == ComputeBaseMask(runSetup, software, a) IN
        /\ bm' = IF r = Raise THEN <<>> ELSE r
        /\ maskStatus' = IF r = Raise THEN "raised" ELSE "returned"
        /\ maskArgs' = a
        /\ UNCHANGED <<runSetup, software>>
        /\ UNCHANGED aggVars
        /\ UNCHANGED runVars
        /\ UNCHANGED sheetVars
        /\ UNCHANGED statusVars
        /\ UNCHANGED transferVars

NextMask == CallComputeBaseMask

SpecMask == InitMask /\ [][NextMask]_vars

(***************************************************************************)
(* C10: whenever _compute_base_mask returns, it returns one token per read *)
(* of the run setup, in read order, and the integers inside each token sum *)
(* to that read's NumCycles.                                               *)
(***************************************************************************)
C10_MaskTokensSumToCycles ==
    maskStatus = "returned" =>
        /\ Len(bm) = Len(runSetup)
        /\ \A i \in 1..Len(runSetup) :
              TokenSum(bm[i]) = runSetup[i].NumCycles

Contains(token, c) == \E k \in 1..Len(token) : token[k] = c

\* A dual-index paired-end run for which the call returned a first index
\* token with an index, a UMI and a masked tail, and a shortened read 2
C10_Witness ==
    /\ maskStatus = "returned"
    /\ Len(bm) = 4
    /\ Contains(bm[2], "I") /\ Contains(bm[2], "U") /\ Contains(bm[2], "N")
    /\ bm[4] = <<"Y", "5", "N", "6">>

(***************************************************************************)
(* Vocabulary of C11: the size the last call was given for read i of the   *)
(* run setup.                                                              *)
(***************************************************************************)
ConfiguredSize(i) ==
    IF runSetup[i].IsIndexedRead = "N"
    THEN IF runSetup[i].Number = 1 THEN maskArgs.read1_size
         ELSE maskArgs.read2_size
    ELSE IF runSetup[i].Number = 2 THEN maskArgs.index1_size
         ELSE maskArgs.index2_size

IndexExceeds ==
    \E i \in 1..Len(runSetup) :
        /\ runSetup[i].IsIndexedRead = "Y"
        /\ ConfiguredSize(i) > runSetup[i].NumCycles

ReadExceeds(i) ==
    /\ runSetup[i].IsIndexedRead = "N"
    /\ ConfiguredSize(i) > runSetup[i].NumCycles

Take(s, n) == SubSeq(s, 1, IF n < Len(s) THEN n ELSE Len(s))

\* [x for x in s if Test(x)]
Filter(s, Test(_)) == SelectSeq(s, Test)

RECURSIVE Flatten(_)
\* the concatenation of a sequence of sequences
Flatten(ss) == IF ss = <<>> THEN <<>> ELSE Head(ss) \o Flatten(Tail(ss))

RECURSIVE SumOf(_)
SumOf(ns) == IF ns = <<>> THEN 0 ELSE Head(ns) + SumOf(Tail(ns))

RECURSIVE SetToSeq(_)
\* the elements of a finite set of integers, ascending
SetToSeq(S) ==
    IF S = {} THEN <<>>
    ELSE LET m == CHOOSE x \in S : \A y \in S : x <= y
         IN <<m>> \o SetToSeq(S \ {m})

InSeq(x, s) == \E i \in 1..Len(s) : s[i] = x

\* three digits, zero padded: the groups after the first of "{:,}"
Pad3(n) ==
    <<DigitChars[(n \div 100) + 1], DigitChars[((n \div 10) % 10) + 1],
      DigitChars[(n % 10) + 1]>>

RECURSIVE FormatComma(_)
\* "{:,}".format(n)
FormatComma(n) ==
    IF n < 0 THEN <<"-">> \o FormatComma(0 - n)
    ELSE IF n < 1000 THEN Str(n)
    ELSE FormatComma(n \div 1000) \o <<",">> \o Pad3(n % 1000)

RECURSIVE DigitsValue(_, _)
DigitsValue(s, acc) ==
    IF s = <<>> THEN acc
    ELSE DigitsValue(Tail(s), 10 * acc + DigitVal(Head(s)))

\* int(s.replace(",", ""))
IntOf(s) ==
    LET t == SelectSeq(s, LAMBDA c : c # ",") IN
    IF t # <<>> /\ Head(t) = "-" THEN 0 - DigitsValue(Tail(t), 0)
    ELSE DigitsValue(t, 0)

(***************************************************************************)
(* Result aggregator: the run that is aggregated.  A SubJob is a record    *)
(* [kind, cover]: the kind of the one sample of its samplesheet and the    *)
(* lanes the sample is pooled in.  SubJob n (n = 0, 1, ...) is             *)
(* subjobs[n + 1]; its sample is called "S<n>".                            *)
(***************************************************************************)
Lanes == {1, 2}

Idx(i1, i2) == [index |-> i1, index2 |-> i2]

NoIndexStr == <<"N", "O", "I", "N", "D", "E", "X">>

IndexKinds == {"short", "dual", "index2", "tenx", "noindex"}

\* index and index2 of the rows of a sample in SampleSheet.csv; a 10X
\* sample has one row per index of its set
OriginalIndexes(kind) ==
    CASE kind = "short"   -> <<Idx(<<"A">>, <<>>)>>
      [] kind = "dual"    -> <<Idx(<<"A", "C">>, <<"C", "A">>)>>
      [] kind = "index2"  -> <<Idx(<<>>, <<"C", "A">>)>>
      [] kind = "tenx"    -> <<Idx(<<"C", "C">>, <<>>), Idx(<<"A", "A">>, <<>>)>>
      [] kind = "noindex" -> <<Idx(NoIndexStr, <<>>)>>

\* The index reads of the run: two index reads of two cycles each
index_cycles == <<2, 2>>

RECURSIVE Repeat(_, _)
\* c * n
Repeat(c, n) == IF n <= 0 THEN <<>> ELSE <<c>> \o Repeat(c, n - 1)

\* The letters whose case matters here, in upper and in lower case
UpperChars == <<"D", "E", "I", "N", "O", "X">>

LowerChars == <<"d", "e", "i", "n", "o", "x">>

\* str.upper()
Upper(str) ==
    [i \in 1..Len(str) |->
        IF \E k \in 1..Len(LowerChars) : LowerChars[k] = str[i]
        THEN UpperChars[CHOOSE k \in 1..Len(LowerChars) : LowerChars[k] = str[i]]
        ELSE str[i]]

\* str.lower()
Lower(str) ==
    [i \in 1..Len(str) |->
        IF \E k \in 1..Len(UpperChars) : UpperChars[k] = str[i]
        THEN LowerChars[CHOOSE k \in 1..Len(UpperChars) : UpperChars[k] = str[i]]
        ELSE str[i]]

\* index and index2 as _generate_samplesheet_subset writes them to
\* SampleSheet_<n>.csv: a NoIndex sample gets poly-T and poly-A
SubsetIndexes(ix) ==
    IF Upper(ix.index) = NoIndexStr
    THEN Idx(Repeat("T", index_cycles[1]), Repeat("A", index_cycles[2]))
    ELSE ix

SampleName(id) == <<"S">> \o Str(id)

\* The data rows of one sample in one lane
SampleRows(id, lane, ixs) ==
    [k \in 1..Len(ixs) |->
        [Lane |-> Str(lane), Sample_Name |-> SampleName(id),
         Sample_Project |-> <<"P">>, index |-> ixs[k].index,
         index2 |-> ixs[k].index2]]

\* The rows of the sample of SubJob id, pooled in lanes, with the indexes ixs
SheetOf(id, lanes, ixs) ==
    Flatten([j \in 1..Len(lanes) |-> SampleRows(id, lanes[j], ixs)])

RowsOfLane(sheet, lane) == SelectSeq(sheet, LAMBDA row : row.Lane = Str(lane))

(***************************************************************************)
(* What the demultiplexer of a SubJob reports.  The clusters of a lane are *)
(* the same for every SubJob; each SubJob assigns to its sample the        *)
(* clusters whose index reads start with the sample's index and index2,    *)
(* and reports the rest as Undetermined.                                   *)
(***************************************************************************)
Read(r1, r2, n) == [r1 |-> r1, r2 |-> r2, n |-> n]

\* The index reads seen in a lane and how many clusters (in units of 500)
\* carry them in lane 1
ObservedReads ==
    <<Read(<<"A", "C">>, <<"C", "A">>, 3),
      Read(<<"C", "A">>, <<"A", "A">>, 2),
      Read(<<"A", "A">>, <<"C", "C">>, 1),
      Read(<<"C", "C">>, <<"C", "A">>, 2),
      Read(<<"T", "T">>, <<"A", "A">>, 1),
      Read(<<"C", "T">>, <<"T", "T">>, 4)>>

ClustersOf(lane, read) == read.n * 500 * lane

\* Mbases of a number of clusters
YieldOf(clusters) == clusters \div 100

RowMatches(row, read) ==
    /\ Take(read.r1, Len(row.index)) = row.index
    /\ Take(read.r2, Len(row.index2)) = row.index2

LaneTotal(lane) ==
    SumOf([k \in 1..Len(ObservedReads) |-> ClustersOf(lane, ObservedReads[k])])

\* The clusters of a lane assigned to one of the rows
AssignedClusters(rows, lane) ==
    SumOf([k \in 1..Len(ObservedReads) |->
        IF \E i \in 1..Len(rows) : RowMatches(rows[i], ObservedReads[k])
        THEN ClustersOf(lane, ObservedReads[k]) ELSE 0])

\* The barcode under which a SubJob with index lengths l1, l2 sees a read
BarcodeOf(read, l1, l2) ==
    IF l1 > 0 /\ l2 > 0 THEN Take(read.r1, l1) \o <<"+">> \o Take(read.r2, l2)
    ELSE IF l1 > 0 THEN Take(read.r1, l1)
    ELSE Take(read.r2, l2)

RECURSIVE Dedup(_)
\* the keys of a dict built by inserting the elements in order
Dedup(s) ==
    IF s = <<>> THEN <<>>
    ELSE LET front == Dedup(SubSeq(s, 1, Len(s) - 1)) IN
         IF InSeq(s[Len(s)], front) THEN front ELSE Append(front, s[Len(s)])

\* The keys of "Barcodes" of a lane in the Stats.json of a SubJob: the
\* barcodes of the reads that match none of the rows of the lane
UnknownOf(rows) ==
    LET l1 == Len(rows[1].index)
        l2 == Len(rows[1].index2)
        unassigned ==
            SelectSeq(ObservedReads,
                      LAMBDA rd : ~ \E i \in 1..Len(rows) : RowMatches(rows[i], rd))
    IN Dedup([k \in 1..Len(unassigned) |-> BarcodeOf(unassigned[k], l1, l2)])

DefaultStr == <<"d", "e", "f", "a", "u", "l", "t">>

UndeterminedStr ==
    <<"U", "n", "d", "e", "t", "e", "r", "m", "i", "n", "e", "d">>

UnknownStr == <<"u", "n", "k", "n", "o", "w", "n">>

\* The sample_data of the lane.html of a SubJob
LaneHtmlOf(lanes) ==
    [j \in 1..Len(lanes) |->
        [Lane |-> Str(lanes[j]),
         PF_Clusters |-> FormatComma(LaneTotal(lanes[j])),
         Yield_Mbases |-> FormatComma(YieldOf(LaneTotal(lanes[j])))]]

BarcodeRow(lane, project, sample, barcode, clusters) ==
    [Lane |-> Str(lane), Project |-> project, Sample |-> sample,
     Barcode_sequence |-> barcode,
     PF_Clusters |-> FormatComma(clusters),
     Yield_Mbases |-> FormatComma(YieldOf(clusters))]

\* The sample_data of the laneBarcode.html of a SubJob: lane by lane, the
\* rows of the samples and then the row of Undetermined
LaneBarcodeHtmlOf(sheet, lanes) ==
    Flatten([j \in 1..Len(lanes) |->
        LET rows == RowsOfLane(sheet, lanes[j]) IN
        [k \in 1..Len(rows) |->
            BarcodeRow(lanes[j], rows[k].Sample_Project, rows[k].Sample_Name,
                       IF rows[k].index2 = <<>> THEN rows[k].index
                       ELSE IF rows[k].index = <<>> THEN rows[k].index2
                       ELSE rows[k].index \o <<"+">> \o rows[k].index2,
                       AssignedClusters(<<rows[k]>>, lanes[j]))]
        \o <<BarcodeRow(lanes[j], DefaultStr, UndeterminedStr, UnknownStr,
                        LaneTotal(lanes[j]) - AssignedClusters(rows, lanes[j]))>>])

\* The Stats.json of a SubJob
StatsJsonOf(id, sheet, lanes) ==
    [ConversionResults |->
        [j \in 1..Len(lanes) |->
            LET assigned == AssignedClusters(RowsOfLane(sheet, lanes[j]), lanes[j])
                rest == LaneTotal(lanes[j]) - assigned
            IN [LaneNumber |-> lanes[j],
                DemuxResults |->
                   <<[SampleName |-> SampleName(id),
                      NumberReads |-> assigned,
                      Yield |-> YieldOf(assigned) * 1000000,
                      IndexMetrics |-> TRUE]>>,
                Undetermined |->
                   [present |-> TRUE,
                    NumberReads |-> rest,
                    Yield |-> YieldOf(rest) * 1000000]]],
     UnknownBarcodes |->
        [j \in 1..Len(lanes) |->
            [Lane |-> lanes[j],
             Barcodes |-> UnknownOf(RowsOfLane(sheet, lanes[j]))]]]

\* The rows of the UnassignedSequences.csv of a sub-demultiplexing of an
\* Element run: the index reads that match none of the rows of the lane,
\* cut to the index lengths of the sub-demultiplexing
UnassignedCsvOf(sheet, lanes) ==
    Flatten([j \in 1..Len(lanes) |->
        LET rows == RowsOfLane(sheet, lanes[j])
            l1 == Len(rows[1].index)
            l2 == Len(rows[1].index2)
            cut == [k \in 1..Len(ObservedReads) |->
                        <<Take(ObservedReads[k].r1, l1), Take(ObservedReads[k].r2, l2)>>]
            FirstUnassigned(k) ==
                /\ ~ \E i \in 1..Len(rows) : RowMatches(rows[i], ObservedReads[k])
                /\ \A h \in 1..(k - 1) : cut[h] # cut[k]
            unassigned ==
                SelectSeq([k \in 1..Len(ObservedReads) |-> k], FirstUnassigned)
        IN [u \in 1..Len(unassigned) |->
               [Lane |-> Str(lanes[j]),
                I1 |-> cut[unassigned[u]][1],
                I2 |-> cut[unassigned[u]][2],
                Count |-> Str(SumOf([k \in 1..Len(ObservedReads) |->
                              IF cut[k] = cut[unassigned[u]]
                              THEN ClustersOf(lanes[j], ObservedReads[k])
                              ELSE 0]))]]])

\* A SubJob whose sample is of a kind and pooled in the lanes of cover: its
\* rows in SampleSheet.csv, its SampleSheet_<id>.csv and the files its
\* demultiplexer has written
SubJobOf(id, kind, cover) ==
    LET lanes == SetToSeq(cover)
        ixs == OriginalIndexes(kind)
        sheet == SheetOf(id, lanes, [k \in 1..Len(ixs) |-> SubsetIndexes(ixs[k])])
    IN [kind |-> kind,
        cover |-> cover,
        original |-> SheetOf(id, lanes, ixs),
        samplesheet |-> sheet,
        lane_html |-> LaneHtmlOf(lanes),
        laneBarcode_html |-> LaneBarcodeHtmlOf(sheet, lanes),
        stats_json |-> StatsJsonOf(id, sheet, lanes),
        unassigned_csv |-> UnassignedCsvOf(sheet, lanes)]

\* self.runParserObj.samplesheet.data: the rows of SampleSheet.csv
FullSheet == Flatten([n \in 1..Len(subjobs) |-> subjobs[n].original])

\* SampleSheetParser(SampleSheet_<id>.csv).data
SubSheet(id) == subjobs[id + 1].samplesheet

\* LaneBarcodeParser(lane.html).sample_data of a SubJob
LaneHtml(id) == subjobs[id + 1].lane_html

\* LaneBarcodeParser(laneBarcode.html).sample_data of a SubJob
LaneBarcodeHtml(id) == subjobs[id + 1].laneBarcode_html

\* json.load(Stats.json) of a SubJob
StatsJson(id) == subjobs[id + 1].stats_json

(***************************************************************************)
(* Run._classify_lanes                                                     *)
(***************************************************************************)
\* noindex_lanes: the lanes of the rows of SampleSheet.csv whose index is
\* NoIndex or whose index and index2 are both empty
NoIndexLanes ==
    LET hits == SelectSeq(FullSheet,
                    LAMBDA entry : \/ Upper(entry.index) = NoIndexStr
                                   \/ (entry.index = <<>> /\ entry.index2 = <<>>))
    IN [k \in 1..Len(hits) |-> hits[k].Lane]

\* lane_demuxid_indexlength[lane] with an entry for every row of the lane
LaneDemuxIdIndexLengthPerRow(samplesheets, lane) ==
    Flatten([k \in 1..Len(samplesheets) |->
        LET rows == SelectSeq(SubSheet(samplesheets[k]), LAMBDA row : row.Lane = lane)
        IN [i \in 1..Len(rows) |->
               [demux_id |-> samplesheets[k],
                lengths |-> <<Len(rows[i].index), Len(rows[i].index2)>>]]])

\* lane_demuxid_indexlength[lane]: for every samplesheet with a row of the
\* lane, in the order of samplesheets, the index lengths of its first row
\* of the lane
LaneDemuxIdIndexLength(samplesheets, lane) ==
    LET with == SelectSeq(samplesheets,
                    LAMBDA id : \E i \in 1..Len(SubSheet(id)) :
                                    SubSheet(id)[i].Lane = lane)
    IN [k \in 1..Len(with) |->
           LET rows == SelectSeq(SubSheet(with[k]), LAMBDA row : row.Lane = lane)
           IN [demux_id |-> with[k],
               lengths |-> <<Len(rows[1].index), Len(rows[1].index2)>>]]

HasZero(lengths) == lengths[1] = 0 \/ lengths[2] = 0

\* One step of the priority selection where, of two candidates with a
\* zero index length, the later one is taken
PriorityStepLastSingle(cur, next) ==
    IF HasZero(cur.lengths) /\ ~ HasZero(next.lengths) THEN next
    ELSE IF HasZero(cur.lengths) /\ HasZero(next.lengths) THEN next
    ELSE IF ~ HasZero(cur.lengths) /\ ~ HasZero(next.lengths)
         THEN IF next.lengths[1] + next.lengths[2]
                   > cur.lengths[1] + cur.lengths[2]
              THEN next ELSE cur
         ELSE cur

\* One step of the priority selection with the shorter indexes preferred
PriorityStepShortest(cur, next) ==
    IF next.lengths[1] + next.lengths[2] < cur.lengths[1] + cur.lengths[2]
    THEN next ELSE cur

\* One step of the selection of the priority SubJob of a complex lane:
\* "Dual and longer indexes have higher priority"
PriorityStep(cur, next) ==
    IF HasZero(cur.lengths) /\ ~ HasZero(next.lengths) THEN next
    ELSE IF \/ (HasZero(cur.lengths) /\ HasZero(next.lengths))
            \/ (~ HasZero(cur.lengths) /\ ~ HasZero(next.lengths))
         THEN IF next.lengths[1] + next.lengths[2]
                   > cur.lengths[1] + cur.lengths[2]
              THEN next ELSE cur
         ELSE cur

RECURSIVE PriorityOf(_)
\* complex_lanes[lane] of a lane with the candidates cands
PriorityOf(cands) ==
    IF Len(cands) = 1 THEN cands[1]
    ELSE PriorityStep(PriorityOf(SubSeq(cands, 1, Len(cands) - 1)),
                      cands[Len(cands)])

\* The lanes that occur in the samplesheets, as the strings of the sheets
SheetLanes(samplesheets) ==
    UNION {{SubSheet(samplesheets[k])[i].Lane :
                i \in 1..Len(SubSheet(samplesheets[k]))} :
           k \in 1..Len(samplesheets)}

\* _classify_lanes(samplesheets)
ClassifyLanes(samplesheets) ==
    LET all == SheetLanes(samplesheets)
        simple == {l \in all : Len(LaneDemuxIdIndexLength(samplesheets, l)) = 1}
    IN [noindex_lanes |-> NoIndexLanes,
        simple_lanes |->
            [l \in simple |-> LaneDemuxIdIndexLength(samplesheets, l)[1].demux_id],
        complex_lanes |->
            [l \in all \ simple |->
                PriorityOf(LaneDemuxIdIndexLength(samplesheets, l))]]

(***************************************************************************)
(* More of Python: split, join, "in" on strings, comparison of strings,    *)
(* list.remove and sorted.                                                 *)
(***************************************************************************)
RECURSIVE SplitOn(_, _)
\* str.split(sep) for a separator of one character
SplitOn(str, sep) ==
    IF ~ InSeq(sep, str) THEN <<str>>
    ELSE LET p == CHOOSE i \in 1..Len(str) :
                      str[i] = sep /\ \A j \in 1..(i - 1) : str[j] # sep
         IN <<SubSeq(str, 1, p - 1)>> \o SplitOn(SubSeq(str, p + 1, Len(str)), sep)

RECURSIVE JoinWith(_, _)
\* sep.join(parts)
JoinWith(parts, sep) ==
    IF parts = <<>> THEN <<>>
    ELSE IF Len(parts) = 1 THEN parts[1]
    ELSE parts[1] \o <<sep>> \o JoinWith(Tail(parts), sep)

\* sub in str
IsSubstring(sub, str) ==
    \E i \in 1..(Len(str) + 1) :
        i + Len(sub) - 1 <= Len(str) /\ SubSeq(str, i, i + Len(sub) - 1) = sub

\* The characters that occur, in the order of their code points
CodeOrder ==
    <<"+", ",", "-", "0", "1", "2", "3", "4", "5", "6", "7", "8", "9",
      "A", "C", "D", "E", "I", "N", "O", "P", "S", "T", "U", "X", "_",
      "d", "e", "i", "k", "m", "n", "o", "r", "t", "u", "w", "x">>

Code(c) == CHOOSE i \in 1..Len(CodeOrder) : CodeOrder[i] = c

RECURSIVE StrLess(_, _)
\* a < b on strings
StrLess(a, b) ==
    IF b = <<>> THEN FALSE
    ELSE IF a = <<>> THEN TRUE
    ELSE IF Head(a) = Head(b) THEN StrLess(Tail(a), Tail(b))
    ELSE Code(Head(a)) < Code(Head(b))

\* list.remove(x): the list without its first element equal to x
RemoveFirst(list, x) ==
    LET p == CHOOSE i \in 1..Len(list) :
                 list[i] = x /\ \A j \in 1..(i - 1) : list[j] # x
    IN SubSeq(list, 1, p - 1) \o SubSeq(list, p + 1, Len(list))

\* The key of the final sort of the rows of laneBarcode.html
RowKeyLess(a, b) ==
    \/ StrLess(Lower(a.Lane), Lower(b.Lane))
    \/ (Lower(a.Lane) = Lower(b.Lane) /\ StrLess(a.Sample, b.Sample))

RECURSIVE SortedRows(_)
\* sorted(rows, key=lambda k: (k["Lane"].lower(), k["Sample"])): stable
SortedRows(rows) ==
    IF rows = <<>> THEN <<>>
    ELSE LET front == SortedRows(SubSeq(rows, 1, Len(rows) - 1))
             x == rows[Len(rows)]
             n == Cardinality({i \in 1..Len(front) : ~ RowKeyLess(x, front[i])})
         IN SubSeq(front, 1, n) \o <<x>> \o SubSeq(front, n + 1, Len(front))

(***************************************************************************)
(* Run._fix_html_reports_for_complex_lanes                                 *)
(***************************************************************************)
RECURSIVE MergeLaneReports(_)
\* The sample_data of the new lane.html: the rows of the first report and,
\* of every later report, the rows of the lanes not seen before it
MergeLaneReports(reports) ==
    IF Len(reports) = 1 THEN reports[1]
    ELSE LET acc == MergeLaneReports(SubSeq(reports, 1, Len(reports) - 1))
             lanesInReport == [k \in 1..Len(acc) |-> acc[k].Lane]
         IN acc \o SelectSeq(reports[Len(reports)],
                             LAMBDA entry : ~ InSeq(entry.Lane, lanesInReport))

RowLanes(rows) == {rows[k].Lane : k \in 1..Len(rows)}

\* The last row of a lane
LastOfLane(rows, lane) ==
    rows[CHOOSE k \in 1..Len(rows) :
            rows[k].Lane = lane /\ \A j \in (k + 1)..Len(rows) : rows[j].Lane # lane]

Zeroed(entry) == [entry EXCEPT !.PF_Clusters = <<"0">>, !.Yield_Mbases = <<"0">>]

RECURSIVE ZeroUndetermined(_, _, _, _)
\* "For complex lanes, set all numbers of undetermined to 0.  And only keep
\* one such entry": the loop over sample_data, position i, which removes
\* entries from the list it walks
ZeroUndetermined(list, i, modified_complex_lanes, complex_lanes) ==
    IF i > Len(list) THEN list
    ELSE IF list[i].Lane \in DOMAIN complex_lanes
             /\ IsSubstring(list[i].Project, DefaultStr)
         THEN IF ~ InSeq(list[i].Lane, modified_complex_lanes)
              THEN ZeroUndetermined([list EXCEPT ![i] = Zeroed(list[i])], i + 1,
                                    Append(modified_complex_lanes, list[i].Lane),
                                    complex_lanes)
              ELSE ZeroUndetermined(RemoveFirst(list, list[i]), i + 1,
                                    modified_complex_lanes, complex_lanes)
         ELSE ZeroUndetermined(list, i + 1, modified_complex_lanes, complex_lanes)

\* total_sample_cluster or total_sample_yield of a lane
SampleTotal(rows, lane, Field(_)) ==
    SumOf([k \in 1..Len(rows) |->
        IF rows[k].Lane = lane /\ rows[k].Project # DefaultStr
        THEN IntOf(Field(rows[k])) ELSE 0])

\* self.NumberReads_Summary
NumberReadsSummary(laneRows, barcodeRows) ==
    [lane \in RowLanes(laneRows) |->
        LET total_lane_cluster == IntOf(LastOfLane(laneRows, lane).PF_Clusters)
            total_lane_yield == IntOf(LastOfLane(laneRows, lane).Yield_Mbases)
            total_sample_cluster ==
                SampleTotal(barcodeRows, lane, LAMBDA r : r.PF_Clusters)
            total_sample_yield ==
                SampleTotal(barcodeRows, lane, LAMBDA r : r.Yield_Mbases)
        IN [total_lane_cluster |-> total_lane_cluster,
            total_lane_yield |-> total_lane_yield,
            total_sample_cluster |-> total_sample_cluster,
            total_sample_yield |-> total_sample_yield,
            undet_cluster |-> total_lane_cluster - total_sample_cluster,
            undet_yield |-> total_lane_yield - total_sample_yield]]

\* The Undetermined rows of the complex lanes left at zero
WithResidualLeftZero(rows, summary, complex_lanes) == rows

\* "Update the cluster/yield info of undet for complex lanes"
WithResidual(rows, summary, complex_lanes) ==
    [k \in 1..Len(rows) |->
        IF rows[k].Project = DefaultStr /\ rows[k].Lane \in DOMAIN complex_lanes
        THEN [rows[k] EXCEPT
                !.PF_Clusters = FormatComma(summary[rows[k].Lane].undet_cluster),
                !.Yield_Mbases = FormatComma(summary[rows[k].Lane].undet_yield)]
        ELSE rows[k]]

\* lane_project_sample: for every no-index lane with a row that is not
\* Undetermined, the last such row
LaneProjectSample(rows, noindex_lanes) ==
    LET named == SelectSeq(rows, LAMBDA entry : InSeq(entry.Lane, noindex_lanes)
                                                /\ entry.Sample # UndeterminedStr)
    IN [lane \in RowLanes(named) |-> LastOfLane(named, lane)]

RECURSIVE NoIndexLoop(_, _, _, _, _)
\* The loop over sample_data[:] that gives the Undetermined row of a
\* no-index lane the name of the sample and removes the rows of the
\* samples.  cur is sample_data, each row with its position in the copy.
NoIndexLoop(copy, k, cur, noindex_lanes, lane_project_sample) ==
    IF k > Len(copy) THEN [error |-> "none", rows |-> cur]
    ELSE IF InSeq(copy[k].Lane, noindex_lanes) /\ copy[k].Sample = UndeterminedStr
    THEN IF copy[k].Lane \notin DOMAIN lane_project_sample
         THEN [error |-> "KeyError", rows |-> cur]
         ELSE NoIndexLoop(copy, k + 1,
                [j \in 1..Len(cur) |->
                    IF cur[j].pos = k
                    THEN [cur[j] EXCEPT
                            !.row.Project =
                                lane_project_sample[copy[k].Lane].Project,
                            !.row.Sample =
                                lane_project_sample[copy[k].Lane].Sample]
                    ELSE cur[j]],
                noindex_lanes, lane_project_sample)
    ELSE IF InSeq(copy[k].Lane, noindex_lanes) /\ copy[k].Sample # UndeterminedStr
    THEN IF ~ \E j \in 1..Len(cur) : cur[j].row = copy[k]
         THEN [error |-> "ValueError", rows |-> cur]
         ELSE LET p == CHOOSE j \in 1..Len(cur) :
                           /\ cur[j].row = copy[k]
                           /\ \A i \in 1..(j - 1) : cur[i].row # copy[k]
              IN NoIndexLoop(copy, k + 1,
                             SubSeq(cur, 1, p - 1) \o SubSeq(cur, p + 1, Len(cur)),
                             noindex_lanes, lane_project_sample)
    ELSE NoIndexLoop(copy, k + 1, cur, noindex_lanes, lane_project_sample)

\* "Fix special case that when we assign fake indexes for NoIndex samples"
NoIndexRows(rows, noindex_lanes) ==
    IF noindex_lanes # <<>> /\ index_cycles # <<0, 0>>
    THEN LET r == NoIndexLoop(rows, 1,
                      [k \in 1..Len(rows) |-> [pos |-> k, row |-> rows[k]]],
                      noindex_lanes, LaneProjectSample(rows, noindex_lanes))
         IN [error |-> r.error,
             rows |-> [k \in 1..Len(r.rows) |-> r.rows[k].row]]
    ELSE [error |-> "none", rows |-> rows]

\* "Remove the trailing _SX postfix from samples names"
WithoutPostfix(rows) ==
    [k \in 1..Len(rows) |->
        IF IsSubstring(<<"_", "S">>, rows[k].Sample)
        THEN [rows[k] EXCEPT
                !.Sample = JoinWith(Take(SplitOn(rows[k].Sample, "_"), 2), "_")]
        ELSE rows[k]]

\* _fix_html_reports_for_complex_lanes: the sample_data of the new lane.html
\* and laneBarcode.html, the Flowcell Summary and NumberReads_Summary
FixHtmlReports(complex_lanes, noindex_lanes, html_reports_lane, html_reports_laneBarcode) ==
    LET laneRows == MergeLaneReports(html_reports_lane)
        zeroed == ZeroUndetermined(Flatten(html_reports_laneBarcode), 1, <<>>,
                                   complex_lanes)
        summary == NumberReadsSummary(laneRows, zeroed)
        fixed == NoIndexRows(WithResidual(zeroed, summary, complex_lanes),
                             noindex_lanes)
    IN IF RowLanes(zeroed) # RowLanes(laneRows)
       THEN [error |-> "KeyError"]
       ELSE IF fixed.error # "none" THEN [error |-> fixed.error]
       ELSE [error |-> "none",
             lane |-> laneRows,
             flowcell |->
                [Clusters_PF |->
                    FormatComma(SumOf([k \in 1..Len(laneRows) |->
                        IntOf(laneRows[k].PF_Clusters)])),
                 Yield_MBases |->
                    FormatComma(SumOf([k \in 1..Len(laneRows) |->
                        IntOf(laneRows[k].Yield_Mbases)]))],
             laneBarcode |-> SortedRows(WithoutPostfix(fixed.rows)),
             NumberReads_Summary |-> summary]

(***************************************************************************)
(* Run._fix_demultiplexingstats_xml_dir                                    *)
(***************************************************************************)
\* Every entry of a later Stats.json appended as a new entry
MergeConversionLaneAppended(conv, lanes_present, entry, complex_lanes, summary) ==
    Append(conv, entry)

\* One ConversionResults entry of a later Stats.json, merged into the list
MergeConversionLane(conv, lanes_present, entry, complex_lanes, summary) ==
    IF InSeq(entry.LaneNumber, lanes_present)
       /\ Str(entry.LaneNumber) \in DOMAIN complex_lanes
    THEN LET undetermined ==
                 [entry.Undetermined EXCEPT
                    !.NumberReads = summary[Str(entry.LaneNumber)].undet_cluster,
                    !.Yield = summary[Str(entry.LaneNumber)].undet_yield * 1000000]
             p == CHOOSE i \in 1..Len(conv) :
                      /\ conv[i].LaneNumber = entry.LaneNumber
                      /\ \A j \in 1..(i - 1) : conv[j].LaneNumber # entry.LaneNumber
         IN [conv EXCEPT ![p].DemuxResults = @ \o entry.DemuxResults,
                         ![p].Undetermined = undetermined]
    ELSE Append(conv, entry)

RECURSIVE MergeConversionFile(_, _, _, _, _)
\* The ConversionResults of one later Stats.json, merged entry by entry
MergeConversionFile(conv, lanes_present, entries, complex_lanes, summary) ==
    IF entries = <<>> THEN conv
    ELSE MergeConversionFile(
            MergeConversionLane(conv, lanes_present, Head(entries),
                                complex_lanes, summary),
            lanes_present, Tail(entries), complex_lanes, summary)

RECURSIVE MergeConversionResults(_, _, _)
\* stats_list["ConversionResults"] after the loop over stats_json
MergeConversionResults(stats, complex_lanes, summary) ==
    IF Len(stats) = 1 THEN stats[1].data.ConversionResults
    ELSE LET conv == MergeConversionResults(SubSeq(stats, 1, Len(stats) - 1),
                                            complex_lanes, summary)
         IN MergeConversionFile(conv,
                [k \in 1..Len(conv) |-> conv[k].LaneNumber],
                stats[Len(stats)].data.ConversionResults, complex_lanes, summary)

\* The value of a local variable that has not been assigned
Unbound == <<"unbound">>

\* sample_idx if it is not longer than the barcode part, else its prefix
ComparePart(sample_idx, unknownbarcode_idx) ==
    IF Len(sample_idx) <= Len(unknownbarcode_idx) THEN sample_idx
    ELSE Take(sample_idx, Len(unknownbarcode_idx))

\* The test of the branch "not sample_idx1 and sample_idx2": the variable
\* comparepart_idx1 as the earlier branches left it, held against the first
\* part of the barcode
Index2OnlyMatches(comparepart_idx1, sample_idx2, unknownbarcode_idx1, unknownbarcode_idx2) ==
    comparepart_idx1
        = Take(unknownbarcode_idx1,
               Len(ComparePart(sample_idx2, unknownbarcode_idx1)))

RECURSIVE IdxLoop(_, _, _, _, _)
\* "for idx in idx_copy": st is [error, barcodes, comparepart_idx1], the
\* keys of full_list_unknownbarcodes["Barcodes"] and the local variable
IdxLoop(idx_copy, k, st, sample_idx1, sample_idx2) ==
    IF k > Len(idx_copy) \/ st.error # "none" THEN st
    ELSE
      LET idx == idx_copy[k]
          plus == InSeq("+", idx)
          unknownbarcode_idx1 == IF plus THEN SplitOn(idx, "+")[1] ELSE idx
          unknownbarcode_idx2 == IF plus THEN SplitOn(idx, "+")[2] ELSE <<>>
          cp1 == ComparePart(sample_idx1, unknownbarcode_idx1)
          cp2 == ComparePart(sample_idx2, unknownbarcode_idx2)
          without == SelectSeq(st.barcodes, LAMBDA b : b # idx)
      IN
      IF sample_idx1 # <<>> /\ sample_idx2 # <<>>
      THEN IdxLoop(idx_copy, k + 1,
              [st EXCEPT !.comparepart_idx1 = cp1,
                         !.barcodes =
                            IF /\ cp1 = Take(unknownbarcode_idx1, Len(cp1))
                               /\ cp2 = Take(unknownbarcode_idx2, Len(cp2))
                            THEN without ELSE @],
              sample_idx1, sample_idx2)
      ELSE IF sample_idx1 # <<>> /\ sample_idx2 = <<>>
      THEN IdxLoop(idx_copy, k + 1,
              [st EXCEPT !.comparepart_idx1 = cp1,
                         !.barcodes =
                            IF cp1 = Take(unknownbarcode_idx1, Len(cp1))
                            THEN without ELSE @],
              sample_idx1, sample_idx2)
      ELSE IF sample_idx1 = <<>> /\ sample_idx2 # <<>>
      THEN IF st.comparepart_idx1 = Unbound
           THEN [st EXCEPT !.error = "UnboundLocalError"]
           ELSE IdxLoop(idx_copy, k + 1,
                   [st EXCEPT !.barcodes =
                        IF Index2OnlyMatches(st.comparepart_idx1, sample_idx2,
                                             unknownbarcode_idx1,
                                             unknownbarcode_idx2)
                        THEN without ELSE @],
                   sample_idx1, sample_idx2)
      ELSE IdxLoop(idx_copy, k + 1, st, sample_idx1, sample_idx2)

RECURSIVE RowsLoop(_, _)
\* "for row in ssparser_data_lane", over the rows of all the other
\* samplesheets in turn; idx_copy is taken anew for every row
RowsLoop(rows, st) ==
    IF rows = <<>> \/ st.error # "none" THEN st
    ELSE RowsLoop(Tail(rows),
                  IdxLoop(st.barcodes, 1, st, Head(rows).index, Head(rows).index2))

\* The rows of the lane in the samplesheets other than that of demux_id
OtherRowsOfLane(samplesheets, demux_id, lane) ==
    Flatten([k \in 1..Len(samplesheets) |->
        IF samplesheets[k] # demux_id
        THEN SelectSeq(SubSheet(samplesheets[k]),
                       LAMBDA row : row.Lane = Str(lane))
        ELSE <<>>])

RECURSIVE UnknownLoop(_, _, _, _, _)
\* "for unknown_barcode_lane in data["UnknownBarcodes"]" for every
\* Stats.json in turn: items holds [demux_id, entry] for every entry of
\* every file, st is [error, unknown, comparepart_idx1]
UnknownLoop(items, st, samplesheets, simple_lanes, complex_lanes) ==
    IF items = <<>> \/ st.error # "none" THEN st
    ELSE
      LET demux_id == Head(items).demux_id
          entry == Head(items).entry
          lane == Str(entry.Lane)
      IN
      IF lane \in DOMAIN simple_lanes
      THEN UnknownLoop(Tail(items), [st EXCEPT !.unknown = Append(@, entry)],
                       samplesheets, simple_lanes, complex_lanes)
      ELSE IF lane \in DOMAIN complex_lanes
              /\ complex_lanes[lane].demux_id = demux_id
      THEN LET r == RowsLoop(OtherRowsOfLane(samplesheets, demux_id, entry.Lane),
                             [error |-> "none", barcodes |-> entry.Barcodes,
                              comparepart_idx1 |-> st.comparepart_idx1])
           IN UnknownLoop(Tail(items),
                  [error |-> r.error,
                   unknown |-> Append(st.unknown,
                                      [entry EXCEPT !.Barcodes = r.barcodes]),
                   comparepart_idx1 |-> r.comparepart_idx1],
                  samplesheets, simple_lanes, complex_lanes)
      ELSE UnknownLoop(Tail(items), st, samplesheets, simple_lanes, complex_lanes)

\* [demux_id, entry] for every entry of UnknownBarcodes of every Stats.json
UnknownItems(stats) ==
    Flatten([k \in 1..Len(stats) |->
        [j \in 1..Len(stats[k].data.UnknownBarcodes) |->
            [demux_id |-> stats[k].demux_id,
             entry |-> stats[k].data.UnknownBarcodes[j]]]])

\* The ConversionResults entry of a no-index lane: the first sample takes
\* the numbers of Undetermined, and Undetermined is deleted
NoIndexConversion(entry) ==
    [entry EXCEPT
        !.DemuxResults[1] =
            [@ EXCEPT !.IndexMetrics = FALSE,
                      !.NumberReads = entry.Undetermined.NumberReads,
                      !.Yield = entry.Undetermined.Yield],
        !.Undetermined = [@ EXCEPT !.present = FALSE]]

\* _fix_demultiplexingstats_xml_dir: what json.dump writes to Stats.json
FixDemultiplexingStats(stats, samplesheets, simple_lanes, complex_lanes, noindex_lanes, summary) ==
    LET conv == MergeConversionResults(stats, complex_lanes, summary)
        u == UnknownLoop(UnknownItems(stats),
                         [error |-> "none", unknown |-> <<>>,
                          comparepart_idx1 |-> Unbound],
                         samplesheets, simple_lanes, complex_lanes)
        fix == noindex_lanes # <<>> /\ index_cycles # <<0, 0>>
    IN IF u.error # "none" THEN [error |-> u.error]
       ELSE [error |-> "none",
             ConversionResults |->
                [k \in 1..Len(conv) |->
                    IF fix /\ InSeq(Str(conv[k].LaneNumber), noindex_lanes)
                    THEN NoIndexConversion(conv[k]) ELSE conv[k]],
             UnknownBarcodes |->
                [k \in 1..Len(u.unknown) |->
                    IF fix /\ InSeq(Str(u.unknown[k].Lane), noindex_lanes)
                    THEN [u.unknown[k] EXCEPT !.Barcodes = <<UnknownStr>>]
                    ELSE u.unknown[k]]]

(***************************************************************************)
(* Run._aggregate_demux_results_simple_complex: what the aggregation       *)
(* merges.  The files and links it creates are the subject of the          *)
(* specification of the run directory.                                     *)
(***************************************************************************)
\* _process_noindex_sample_with_fake_index_with_single_demux: the new
\* laneBarcode.html and Stats.json of the only SubJob
ProcessNoIndexSingleDemux(demux_id) ==
    LET rows == LaneBarcodeHtml(demux_id)
        lanes == [k \in 1..Len(rows) |-> rows[k].Lane]
        r == NoIndexLoop(rows, 1,
                 [k \in 1..Len(rows) |-> [pos |-> k, row |-> rows[k]]],
                 lanes, LaneProjectSample(rows, lanes))
        data == StatsJson(demux_id)
    IN IF r.error # "none" THEN [error |-> r.error]
       ELSE [error |-> "none",
             lane |-> LaneHtml(demux_id),
             laneBarcode |-> SortedRows([k \in 1..Len(r.rows) |-> r.rows[k].row]),
             ConversionResults |->
                [k \in 1..Len(data.ConversionResults) |->
                    NoIndexConversion(data.ConversionResults[k])],
             UnknownBarcodes |->
                [k \in 1..Len(data.UnknownBarcodes) |->
                    [data.UnknownBarcodes[k] EXCEPT !.Barcodes = <<UnknownStr>>]]]

\* _process_simple_lane_with_single_demux: the reports and statistics of the
\* only SubJob behind the links, laneBarcode.html rewritten sorted
ProcessSimpleSingleDemux(demux_id) ==
    LET rows == LaneBarcodeHtml(demux_id) IN
    [error |-> "none",
     lane |-> LaneHtml(demux_id),
     laneBarcode |->
        SortedRows([k \in 1..Len(rows) |->
            IF IsSubstring(<<"_", "S">>, rows[k].Sample)
            THEN [rows[k] EXCEPT
                    !.Sample =
                        LET parts == SplitOn(rows[k].Sample, "_")
                        IN JoinWith(Take(parts, Len(parts) - 1), "_")]
            ELSE rows[k]]),
     ConversionResults |-> StatsJson(demux_id).ConversionResults,
     UnknownBarcodes |-> StatsJson(demux_id).UnknownBarcodes]

\* The case with multiple sub-demultiplexings
ProcessMultipleDemux(samplesheets, cl) ==
    LET html == FixHtmlReports(cl.complex_lanes, cl.noindex_lanes,
                    [k \in 1..Len(samplesheets) |-> LaneHtml(samplesheets[k])],
                    [k \in 1..Len(samplesheets) |-> LaneBarcodeHtml(samplesheets[k])])
        stats == FixDemultiplexingStats(
                    [k \in 1..Len(samplesheets) |->
                        [demux_id |-> samplesheets[k],
                         data |-> StatsJson(samplesheets[k])]],
                    samplesheets, cl.simple_lanes, cl.complex_lanes,
                    cl.noindex_lanes, html.NumberReads_Summary)
    IN IF html.error # "none" THEN [error |-> html.error]
       ELSE IF stats.error # "none" THEN [error |-> stats.error]
       ELSE [error |-> "none",
             lane |-> html.lane,
             laneBarcode |-> html.laneBarcode,
             ConversionResults |-> stats.ConversionResults,
             UnknownBarcodes |-> stats.UnknownBarcodes]

\* _aggregate_demux_results_simple_complex with samplesheets as glob gave
\* them
AggregateDemuxResults(samplesheets) ==
    LET cl == ClassifyLanes(samplesheets) IN
    IF DOMAIN cl.complex_lanes = {} /\ Len(samplesheets) = 1
    THEN IF cl.noindex_lanes # <<>> /\ index_cycles # <<0, 0>>
         THEN ProcessNoIndexSingleDemux(0)
         ELSE ProcessSimpleSingleDemux(0)
    ELSE ProcessMultipleDemux(samplesheets, cl)

(***************************************************************************)
(* Element (taca/element/Element_Runs.py): Run.aggregate_stats_unassigned, *)
(* over the same SubJobs taken as the sub-demultiplexings of an Element    *)
(* run.  The "% Polonies" column is left out.                              *)
(***************************************************************************)
\* demux_runmanifest: the samples of the RunManifest.csv of every
\* sub-demultiplexing
DemuxRunManifest ==
    Flatten([n \in 1..Len(subjobs) |->
        [k \in 1..Len(subjobs[n].samplesheet) |->
            [sub_demux_count |-> n - 1,
             Lane |-> subjobs[n].samplesheet[k].Lane,
             SampleName |-> subjobs[n].samplesheet[k].Sample_Name,
             Index1 |-> subjobs[n].samplesheet[k].index,
             Index2 |-> subjobs[n].samplesheet[k].index2]]])

\* sub_demux_index_lens of a lane
SubDemuxIndexLens(lane) ==
    {<<DemuxRunManifest[k].sub_demux_count,
       <<Len(DemuxRunManifest[k].Index1), Len(DemuxRunManifest[k].Index2)>>>> :
        k \in {i \in 1..Len(DemuxRunManifest) : DemuxRunManifest[i].Lane = lane}}

\* What sub_demux_with_max_index_lens can be: sub_demux_list[0] of the set
\* sorted by the sum of the index lengths, reverse=True; the order of a set
\* is arbitrary, so any of the greatest can come first
LongestSubDemux(lens) ==
    {x[1] : x \in {y \in lens : \A z \in lens : z[2][1] + z[2][2] <= y[2][1] + y[2][2]}}

Min(a, b) == IF a < b THEN a ELSE b

\* max_unassigned_indexes of a lane after the records that overlap with the
\* unassigned indexes of the other sub-demultiplexings are removed
MaxUnassignedIndexes(lane, start) ==
    LET lens == SubDemuxIndexLens(lane)
        LensOf(sub) == (CHOOSE x \in lens : x[1] = sub)[2]
        others == {x[1] : x \in lens} \ {start}
        Overlapped(m) ==
            \E sub \in others :
                LET l1 == Min(LensOf(sub)[1], LensOf(start)[1])
                    l2 == Min(LensOf(sub)[2], LensOf(start)[2])
                    csv == subjobs[sub + 1].unassigned_csv
                IN \E k \in 1..Len(csv) :
                      /\ csv[k].Lane = lane
                      /\ Take(m.I1, l1) = Take(csv[k].I1, l1)
                      /\ Take(m.I2, l2) = Take(csv[k].I2, l2)
    IN SelectSeq(subjobs[start + 1].unassigned_csv,
                 LAMBDA m : m.Lane = lane /\ ~ Overlapped(m))

UnassignedKeyLess(a, b) ==
    \/ StrLess(a.Lane, b.Lane)
    \/ (a.Lane = b.Lane /\ 0 - IntOf(a.Count) < 0 - IntOf(b.Count))

RECURSIVE SortedUnassigned(_)
\* sorted(rows, key=lambda x: (x['Lane'], -int(x['Count']))): stable
SortedUnassigned(rows) ==
    IF rows = <<>> THEN <<>>
    ELSE LET front == SortedUnassigned(SubSeq(rows, 1, Len(rows) - 1))
             x == rows[Len(rows)]
             n == Cardinality({i \in 1..Len(front) : ~ UnassignedKeyLess(x, front[i])})
         IN SubSeq(front, 1, n) \o <<x>> \o SubSeq(front, n + 1, Len(front))

\* The lanes of demux_runmanifest, sorted
ManifestLanes ==
    LET lanes == SetToSeq(UNION {subjobs[n].cover : n \in 1..Len(subjobs)})
    IN [k \in 1..Len(lanes) |-> Str(lanes[k])]

\* The orders in which glob may return the samplesheets of n SubJobs.  Every
\* assignment of samples and lanes to the SubJobs is drawn, so these two
\* orders put every sequence of SubJobs before the aggregation.
GlobOrders(n) == {[k \in 1..n |-> k - 1], [k \in 1..n |-> n - k]}

CoverChoices == SUBSET Lanes \ {{}}

InitAgg ==
    /\ \E n \in 1..MaxSubJobs :
          \E c \in [1..n -> IndexKinds \X CoverChoices] :
              subjobs = [k \in 1..n |-> SubJobOf(k - 1, c[k][1], c[k][2])]
    /\ globOrder \in GlobOrders(Len(subjobs))
    /\ aggStatus = "idle"
    /\ merged = <<>>
    /\ elemStatus = "idle"
    /\ elemStart = <<>>
    /\ elemUnassigned = <<>>
    /\ IdleMask
    /\ IdleRun
    /\ IdleSheet
    /\ IdleStatus
    /\ IdleTransfer

\* One run of the aggregation over the finished SubJobs
Aggregate ==
    /\ aggStatus = "idle"
    /\ elemStatus = "idle"
    /\ LET r == AggregateDemuxResults(globOrder) IN
        /\ aggStatus' = IF r.error = "none" THEN "done" ELSE "raised"
        /\ merged' = r
    /\ UNCHANGED <<subjobs, globOrder, elemStatus, elemStart, elemUnassigned>>
    /\ UNCHANGED maskVars
    /\ UNCHANGED sheetVars
    /\ UNCHANGED runVars
    /\ UNCHANGED statusVars
    /\ UNCHANGED transferVars

\* One call of Element's aggregate_stats_unassigned: it builds the list and
\* then calls self.write_to_csv(data, filename), a function of the class
\* that is defined with the parameters (data, filename): TypeError
ElementAggregateStatsUnassigned ==
    /\ elemStatus = "idle"
    /\ aggStatus = "idle"
    /\ \E start \in [{ManifestLanes[k] : k \in 1..Len(ManifestLanes)}
                       -> 0..(Len(subjobs) - 1)] :
          /\ \A k \in 1..Len(ManifestLanes) :
                start[ManifestLanes[k]]
                    \in LongestSubDemux(SubDemuxIndexLens(ManifestLanes[k]))
          /\ elemStart' = start
          /\ elemUnassigned' =
                SortedUnassigned(Flatten([k \in 1..Len(ManifestLanes) |->
                    MaxUnassignedIndexes(ManifestLanes[k], start[ManifestLanes[k]])]))
    /\ elemStatus' = "raised"
    /\ UNCHANGED <<subjobs, globOrder, aggStatus, merged>>
    /\ UNCHANGED maskVars
    /\ UNCHANGED sheetVars
    /\ UNCHANGED runVars
    /\ UNCHANGED statusVars
    /\ UNCHANGED transferVars

NextAgg == Aggregate \/ ElementAggregateStatsUnassigned

SpecAgg == InitAgg /\ [][NextAgg]_vars

(***************************************************************************)
(* Vocabulary of the properties of the aggregation.                        *)
(***************************************************************************)
\* The SubJobs whose samplesheet has rows of a lane, in glob order
Covering(lane) ==
    SelectSeq(globOrder, LAMBDA id : lane \in subjobs[id + 1].cover)

CoveredLanes == UNION {subjobs[n].cover : n \in 1..Len(subjobs)}

\* The lanes that more than one SubJob has demultiplexed
SharedLanes == {lane \in CoveredLanes : Len(Covering(lane)) > 1}

IsNoIndexLane(lane) == InSeq(Str(lane), NoIndexLanes)

\* The sum of the PF clusters of the rows of a lane that satisfy Test
ClustersOfRows(rows, lane, Test(_)) ==
    SumOf([k \in 1..Len(rows) |->
        IF rows[k].Lane = Str(lane) /\ Test(rows[k])
        THEN IntOf(rows[k].PF_Clusters) ELSE 0])

IsUndeterminedRow(row) == row.Sample = UndeterminedStr

IsSampleRow(row) == row.Sample # UndeterminedStr

\* The total of a lane in the merged lane report
MergedLaneTotal(lane) ==
    IntOf(LastOfLane(merged.lane, Str(lane)).PF_Clusters)

\* The entries of the merged ConversionResults for a lane
ConversionEntries(lane) ==
    SelectSeq(merged.ConversionResults, LAMBDA e : e.LaneNumber = lane)

\* The lane total is the sum of the sample rows and the Undetermined row,
\* and in a shared lane the Undetermined NumberReads of Stats.json is the
\* residual of the lane
ClustersAddUp(lane) ==
    LET samples == ClustersOfRows(merged.laneBarcode, lane, IsSampleRow)
        undetermined == ClustersOfRows(merged.laneBarcode, lane, IsUndeterminedRow)
    IN /\ MergedLaneTotal(lane) = samples + undetermined
       /\ lane \in SharedLanes =>
             /\ Len(ConversionEntries(lane)) >= 1
             /\ ConversionEntries(lane)[1].Undetermined.present
             /\ ConversionEntries(lane)[1].Undetermined.NumberReads
                   = MergedLaneTotal(lane) - samples

MultiDone == aggStatus = "done" /\ Len(subjobs) >= 2

ConcatenatedDemuxResults(lane) ==
    Flatten([k \in 1..Len(Covering(lane)) |->
        SelectSeq(StatsJson(Covering(lane)[k]).ConversionResults,
                  LAMBDA e : e.LaneNumber = lane)[1].DemuxResults])

SampleNames(demuxResults) ==
    [k \in 1..Len(demuxResults) |-> demuxResults[k].SampleName]

IndexLengths(id, lane) ==
    LET rows == RowsOfLane(SubSheet(id), lane)
    IN <<Len(rows[1].index), Len(rows[1].index2)>>

\* The SubJob whose unknown barcodes the aggregation starts from in a
\* shared lane
Authoritative(lane) == ClassifyLanes(globOrder).complex_lanes[Str(lane)].demux_id

\* The keys of Barcodes of the lane in the merged Stats.json
MergedUnknown(lane) ==
    Flatten([k \in 1..Len(merged.UnknownBarcodes) |->
        IF merged.UnknownBarcodes[k].Lane = lane
        THEN merged.UnknownBarcodes[k].Barcodes ELSE <<>>])

\* The keys of Barcodes of the lane in the Stats.json of a SubJob
UnknownOfSubJob(id, lane) ==
    Flatten([k \in 1..Len(StatsJson(id).UnknownBarcodes) |->
        IF StatsJson(id).UnknownBarcodes[k].Lane = lane
        THEN StatsJson(id).UnknownBarcodes[k].Barcodes ELSE <<>>])

\* a and b agree over the shorter of their lengths
AgreeOverShorter(a, b) ==
    LET n == IF Len(a) < Len(b) THEN Len(a) ELSE Len(b)
    IN Take(a, n) = Take(b, n)

\* The parts of a barcode by index read, for a SubJob with the index
\* lengths of lengths
BarcodeParts(barcode, lengths) ==
    IF InSeq("+", barcode)
    THEN <<SplitOn(barcode, "+")[1], SplitOn(barcode, "+")[2]>>
    ELSE IF lengths[1] > 0 THEN <<barcode, <<>>>> ELSE <<<<>>, barcode>>

\* The barcode is of the sample of the row: on every index read on which
\* the sample has an index, the barcode has a part and the two agree over
\* the shorter length
BarcodeOfSample(row, parts) ==
    /\ row.index # <<>> \/ row.index2 # <<>>
    /\ row.index # <<>> => parts[1] # <<>> /\ AgreeOverShorter(row.index, parts[1])
    /\ row.index2 # <<>> => parts[2] # <<>> /\ AgreeOverShorter(row.index2, parts[2])

\* The merged unknown barcodes of a lane hold no barcode of a sample of
\* another SubJob that satisfies Which
NoBarcodeOfOtherSamples(lane, Which(_)) ==
    \A k \in 1..Len(MergedUnknown(lane)) :
        \A j \in 1..Len(Covering(lane)) :
            Covering(lane)[j] # Authoritative(lane) =>
                \A i \in 1..Len(RowsOfLane(SubSheet(Covering(lane)[j]), lane)) :
                    LET row == RowsOfLane(SubSheet(Covering(lane)[j]), lane)[i] IN
                    Which(row) =>
                        ~ BarcodeOfSample(row,
                              BarcodeParts(MergedUnknown(lane)[k],
                                           IndexLengths(Authoritative(lane), lane)))

\* Element: the unassigned sequences aggregated for a lane hold no sequence
\* of a sample of another sub-demultiplexing of the lane
NoUnassignedOfOtherSamples(lane) ==
    \A k \in 1..Len(elemUnassigned) :
        elemUnassigned[k].Lane = Str(lane) =>
            \A j \in 1..Len(Covering(lane)) :
                Covering(lane)[j] # elemStart[Str(lane)] =>
                    \A i \in 1..Len(RowsOfLane(SubSheet(Covering(lane)[j]), lane)) :
                        ~ BarcodeOfSample(
                              RowsOfLane(SubSheet(Covering(lane)[j]), lane)[i],
                              <<elemUnassigned[k].I1, elemUnassigned[k].I2>>)

(***************************************************************************)
(* C8 as stated: after the aggregation the merged unknown barcodes of a    *)
(* shared lane hold no barcode that agrees, over the shorter length and    *)
(* per index read, with the index of a sample of another SubJob of the     *)
(* lane, whether the sample has index only, index and index2, or index2    *)
(* only.                                                                   *)
(***************************************************************************)
C8_Original ==
    /\ aggStatus = "done" =>
          \A lane \in SharedLanes : NoBarcodeOfOtherSamples(lane, LAMBDA row : TRUE)
    /\ elemStatus = "raised" =>
          \A lane \in SharedLanes : NoUnassignedOfOtherSamples(lane)

LengthSum(lengths) == lengths[1] + lengths[2]

\* a comes before b in the order "dual and longer indexes have higher
\* priority"
HigherPriority(a, b) ==
    \/ ~ HasZero(a) /\ HasZero(b)
    \/ HasZero(a) = HasZero(b) /\ LengthSum(a) > LengthSum(b)

\* The position of a SubJob among the SubJobs of a lane, in glob order
PositionIn(lane, id) == CHOOSE k \in 1..Len(Covering(lane)) : Covering(lane)[k] = id

(***************************************************************************)
(* C9 as stated: in a shared lane the SubJob whose unknown barcodes the    *)
(* aggregation starts from has the lowest index length of the SubJobs of   *)
(* the lane, and so has the sub-demultiplexing that Element starts from.   *)
(***************************************************************************)
C9_Original ==
    /\ aggStatus = "done" =>
          \A lane \in SharedLanes :
              \A k \in 1..Len(Covering(lane)) :
                  LengthSum(IndexLengths(Authoritative(lane), lane))
                      <= LengthSum(IndexLengths(Covering(lane)[k], lane))
    /\ elemStatus = "raised" =>
          \A lane \in SharedLanes :
              \A k \in 1..Len(Covering(lane)) :
                  LengthSum(IndexLengths(elemStart[Str(lane)], lane))
                      <= LengthSum(IndexLengths(Covering(lane)[k], lane))

(***************************************************************************)
(* C9, amended: in a shared lane the SubJob whose unknown barcodes the     *)
(* aggregation starts from is the first, in glob order, of the SubJobs of  *)
(* the lane that no other SubJob of the lane precedes in priority, where   *)
(* dual indexes precede single ones and, among equals, the greater sum of  *)
(* the index lengths precedes; the merged unknown barcodes of the lane are *)
(* taken from the list of that SubJob.  Element starts from a               *)
(* sub-demultiplexing of the lane with the greatest sum of the index       *)
(* lengths, and its aggregated unassigned sequences of the lane are taken  *)
(* from the list of that sub-demultiplexing.                               *)
(***************************************************************************)
C9_AuthoritativeIsHighestPriority ==
    /\ aggStatus = "done" =>
          \A lane \in SharedLanes :
              LET p == Authoritative(lane) IN
              /\ InSeq(p, Covering(lane))
              /\ \A k \in 1..Len(Covering(lane)) :
                    LET q == Covering(lane)[k] IN
                    /\ ~ HigherPriority(IndexLengths(q, lane), IndexLengths(p, lane))
                    /\ k < PositionIn(lane, p) =>
                          HigherPriority(IndexLengths(p, lane), IndexLengths(q, lane))
              /\ ~ IsNoIndexLane(lane) =>
                    \A k \in 1..Len(MergedUnknown(lane)) :
                        InSeq(MergedUnknown(lane)[k], UnknownOfSubJob(p, lane))
    /\ elemStatus = "raised" =>
          \A lane \in SharedLanes :
              LET p == elemStart[Str(lane)] IN
              /\ InSeq(p, Covering(lane))
              /\ \A k \in 1..Len(Covering(lane)) :
                    LengthSum(IndexLengths(Covering(lane)[k], lane))
                        <= LengthSum(IndexLengths(p, lane))
              /\ \A k \in 1..Len(elemUnassigned) :
                    elemUnassigned[k].Lane = Str(lane) =>
                        InSeq(elemUnassigned[k], subjobs[p + 1].unassigned_csv)

\* A finished aggregation with a lane shared by a single index of one base
\* and a single index of two bases, the shorter one first in glob order: the
\* aggregation starts from the longer one, and barcodes of it are merged
C9_Witness ==
    /\ aggStatus = "done"
    /\ \E lane \in SharedLanes :
          /\ Len(Covering(lane)) = 2
          /\ IndexLengths(Covering(lane)[1], lane) = <<1, 0>>
          /\ IndexLengths(Covering(lane)[2], lane) = <<2, 0>>
          /\ Authoritative(lane) = Covering(lane)[2]
          /\ MergedUnknown(lane) # <<>>
          /\ \E k \in 1..Len(MergedUnknown(lane)) : Len(MergedUnknown(lane)[k]) = 2

(***************************************************************************)
(* The run directory.  A path is the sequence of its components, each a    *)
(* string.  The software of the run is bcl2fastq, so legacy_path is "".    *)
(* The logs demux_<n>_bcl2fastq.err are there from the start of a SubJob   *)
(* and end with the line _check_demux_log looks for.                       *)
(***************************************************************************)
StatsName == <<"S", "t", "a", "t", "s">>

ReportsName == <<"R", "e", "p", "o", "r", "t", "s">>

\* html/<flowcell_id>/all/all/all, taken as one component
HtmlAllName == <<"h", "t", "m", "l", "/", "F", "C", "/", "a", "l", "l", "/", "a", "l", "l", "/", "a", "l", "l">>

StatsJsonName == <<"S", "t", "a", "t", "s", ".", "j", "s", "o", "n">>

DemultiplexingStatsName == <<"D", "e", "m", "u", "l", "t", "i", "p", "l", "e", "x", "i", "n", "g", "S", "t", "a", "t", "s", ".", "x", "m", "l">>

AdapterTrimmingName == <<"A", "d", "a", "p", "t", "e", "r", "T", "r", "i", "m", "m", "i", "n", "g", ".", "t", "x", "t">>

ConversionStatsName == <<"C", "o", "n", "v", "e", "r", "s", "i", "o", "n", "S", "t", "a", "t", "s", ".", "x", "m", "l">>

LaneHtmlName == <<"l", "a", "n", "e", ".", "h", "t", "m", "l">>

LaneBarcodeHtmlName == <<"l", "a", "n", "e", "B", "a", "r", "c", "o", "d", "e", ".", "h", "t", "m", "l">>

\* DemuxSummaryF1L<lane>.txt
DemuxSummaryName(lane) == <<"D", "e", "m", "u", "x", "S", "u", "m", "m", "a", "r", "y", "F", "1", "L">> \o lane \o <<".", "t", "x", "t">>

\* The end of the name of a FastQ file: _L00<lane>_R1_001.fastq.gz
FastqTail(lane) == <<<<"L", "0", "0">> \o lane, <<"R", "1">>, <<"0", "0", "1", ".", "f", "a", "s", "t", "q", ".", "g", "z">>>>

\* Undetermined_S0_L00<lane>_R1_001.fastq.gz
UndeterminedFastq(lane) ==
    JoinWith(<<UndeterminedStr, <<"S", "0">>>> \o FastqTail(lane), "_")

\* <Sample_Name>_S<number>_L00<lane>_R1_001.fastq.gz
SampleFastq(sample, number, lane) ==
    JoinWith(<<sample, <<"S">> \o Str(number)>> \o FastqTail(lane), "_")

\* The files of a sub-demultiplexing that may fail to be written
Reports == {"lane.html", "laneBarcode.html", "Stats.json"}

\* The file is in Demultiplexing_<id>
HasReport(id, file) == id \in finished /\ ~ (id = 0 /\ lost = file)

\* The lanes of SampleSheet_<id>.csv
LanesOf(id) == Dedup([k \in 1..Len(SubSheet(id)) |-> SubSheet(id)[k].Lane])

\* The project directories of Demultiplexing_<id>
ProjectsOf(id) ==
    IF id \in finished
    THEN Dedup([k \in 1..Len(SubSheet(id)) |-> SubSheet(id)[k].Sample_Project])
    ELSE <<>>

\* The sample directories of a project of Demultiplexing_<id>
SamplesOf(id, project) ==
    Dedup(Flatten([k \in 1..Len(SubSheet(id)) |->
        IF SubSheet(id)[k].Sample_Project = project
        THEN <<SubSheet(id)[k].Sample_Name>> ELSE <<>>]))

\* The FastQ files of a sample of Demultiplexing_<id>
FastqOf(id, project, sample) ==
    Flatten([k \in 1..Len(SubSheet(id)) |->
        IF SubSheet(id)[k].Sample_Project = project
           /\ SubSheet(id)[k].Sample_Name = sample
        THEN <<SampleFastq(sample, k, SubSheet(id)[k].Lane)>> ELSE <<>>])

\* The Undetermined FastQ files of Demultiplexing_<id>
UndeterminedOf(id) ==
    IF id \in finished
    THEN [k \in 1..Len(LanesOf(id)) |-> UndeterminedFastq(LanesOf(id)[k])]
    ELSE <<>>

\* os.listdir(Demultiplexing_<id>), in one of the orders it can have
TopElements(id) ==
    IF id \in finished
    THEN ProjectsOf(id) \o UndeterminedOf(id) \o <<StatsName, ReportsName>>
    ELSE <<>>

\* glob(Demultiplexing_<id>/Stats/*)
StatsFiles(id) ==
    IF id \in finished
    THEN <<DemultiplexingStatsName, AdapterTrimmingName, ConversionStatsName>>
         \o (IF HasReport(id, "Stats.json") THEN <<StatsJsonName>> ELSE <<>>)
         \o [k \in 1..Len(LanesOf(id)) |-> DemuxSummaryName(LanesOf(id)[k])]
    ELSE <<>>

\* The path is in Demultiplexing_<id>
InOutput(id, path) ==
    /\ id \in finished
    /\ \/ Len(path) = 1 /\ InSeq(path[1], TopElements(id))
       \/ /\ Len(path) = 2 /\ path[1] = StatsName
          /\ InSeq(path[2], StatsFiles(id))
       \/ Len(path) = 2 /\ path = <<ReportsName, HtmlAllName>>
       \/ /\ Len(path) = 3 /\ Take(path, 2) = <<ReportsName, HtmlAllName>>
          /\ \/ path[3] = LaneHtmlName /\ HasReport(id, "lane.html")
             \/ path[3] = LaneBarcodeHtmlName /\ HasReport(id, "laneBarcode.html")
       \/ /\ Len(path) \in 2..3 /\ InSeq(path[1], ProjectsOf(id))
          /\ InSeq(path[2], SamplesOf(id, path[1]))
          /\ Len(path) = 3 => InSeq(path[3], FastqOf(id, path[1], path[2]))

(***************************************************************************)
(* The entries under Demultiplexing/ and the operations on them.  An entry *)
(* is a path with the sub-demultiplexing and the path its link points to;  *)
(* from is -1 and target is empty for a directory or a file made there.    *)
(***************************************************************************)
Made(path) == [path |-> path, from |-> 0 - 1, target |-> <<>>]

Link(path, from, target) == [path |-> path, from |-> from, target |-> target]

\* os.path.lexists: there is an entry of the path, or the path lies behind
\* a link to a directory of a sub-demultiplexing
EntryOf(fs, path) == {e \in fs : e.path = path}

Behind(fs, path) ==
    {e \in fs : /\ e.from >= 0
                /\ Len(e.path) < Len(path)
                /\ Take(path, Len(e.path)) = e.path}

Resolved(e, path) == e.target \o SubSeq(path, Len(e.path) + 1, Len(path))

LExists(fs, path) ==
    \/ EntryOf(fs, path) # {}
    \/ \E e \in Behind(fs, path) : InOutput(e.from, Resolved(e, path))

\* os.path.exists: as lexists, and a link points to something that is there
Exists(fs, path) ==
    \/ \E e \in EntryOf(fs, path) : e.from >= 0 => InOutput(e.from, e.target)
    \/ \E e \in Behind(fs, path) : InOutput(e.from, Resolved(e, path))

\* The operations of the aggregation on Demultiplexing/
Symlink(path, from, target) ==
    [op |-> "symlink", path |-> path, from |-> from, target |-> target, error |-> "none"]

MakeDirs(path) ==
    [op |-> "makedirs", path |-> path, from |-> 0 - 1, target |-> <<>>, error |-> "none"]

\* if not os.path.exists(path): os.makedirs(path)
MakeDirsIfAbsent(path) ==
    [op |-> "makedirs_if_absent", path |-> path, from |-> 0 - 1, target |-> <<>>,
     error |-> "none"]

\* open(path, "w")
OpenW(path) ==
    [op |-> "open_w", path |-> path, from |-> 0 - 1, target |-> <<>>, error |-> "none"]

\* The Reports of the only sub-demultiplexing take the place of
\* Demultiplexing/Reports
ReplaceReports(from) ==
    [op |-> "replace_reports", path |-> <<ReportsName>>, from |-> from,
     target |-> <<ReportsName>>, error |-> "none"]

RaiseOp(error) ==
    [op |-> "raise", path |-> <<>>, from |-> 0 - 1, target |-> <<>>, error |-> error]

\* The directories of a path that are not there yet, the path included
MissingDirs(fs, path) ==
    {Made(Take(path, n)) : n \in {m \in 1..Len(path) : ~ LExists(fs, Take(path, m))}}

\* One operation on the entries fs: the entries after it, and the error it
\* raises
Apply(fs, o) ==
    CASE o.op = "symlink" ->
            IF LExists(fs, o.path) THEN [fs |-> fs, error |-> "FileExistsError"]
            ELSE [fs |-> fs \cup {Link(o.path, o.from, o.target)}, error |-> "none"]
      [] o.op = "makedirs" ->
            IF LExists(fs, o.path) THEN [fs |-> fs, error |-> "FileExistsError"]
            ELSE [fs |-> fs \cup MissingDirs(fs, o.path), error |-> "none"]
      [] o.op = "makedirs_if_absent" ->
            IF Exists(fs, o.path) THEN [fs |-> fs, error |-> "none"]
            ELSE IF LExists(fs, o.path) THEN [fs |-> fs, error |-> "FileExistsError"]
            ELSE [fs |-> fs \cup MissingDirs(fs, o.path), error |-> "none"]
      [] o.op = "open_w" ->
            IF LExists(fs, o.path) THEN [fs |-> fs, error |-> "none"]
            ELSE IF Len(o.path) > 1 /\ ~ Exists(fs, Take(o.path, Len(o.path) - 1))
            THEN [fs |-> fs, error |-> "FileNotFoundError"]
            ELSE [fs |-> fs \cup {Made(o.path)}, error |-> "none"]
      [] o.op = "replace_reports" ->
            \* if os.path.exists(dest): os.rmdir(dest), or os.unlink(dest) on
            \* NotADirectoryError; then os.symlink(source, dest)
            LET link == {e \in EntryOf(fs, o.path) : e.from >= 0}
                below == {e \in fs : Len(e.path) > 1 /\ e.path[1] = o.path[1]}
            IN IF ~ Exists(fs, o.path)
               THEN IF LExists(fs, o.path)
                    THEN [fs |-> fs, error |-> "FileExistsError"]
                    ELSE [fs |-> fs \cup {Link(o.path, o.from, o.target)},
                          error |-> "none"]
               ELSE IF link # {}
                    THEN [fs |-> (fs \ link) \cup {Link(o.path, o.from, o.target)},
                          error |-> "none"]
                    ELSE IF below # {} THEN [fs |-> fs, error |-> "OSError"]
                    ELSE [fs |-> (fs \ EntryOf(fs, o.path))
                                    \cup {Link(o.path, o.from, o.target)},
                          error |-> "none"]
      [] o.op = "raise" -> [fs |-> fs, error |-> o.error]

RECURSIVE RunOps(_, _, _)
\* The operations ops[i], ops[i + 1], ... in turn, up to the first that raises
RunOps(fs, ops, i) ==
    IF i > Len(ops) THEN [fs |-> fs, error |-> "none"]
    ELSE LET r == Apply(fs, ops[i]) IN
         IF r.error # "none" THEN r ELSE RunOps(r.fs, ops, i + 1)

(***************************************************************************)
(* The files and links the aggregation creates, as the operations it       *)
(* performs in turn.                                                       *)
(***************************************************************************)
\* os.path.splitext(name)[0][-1]
LastOfStem(name) ==
    LET parts == SplitOn(name, ".")
        stem == IF Len(parts) = 1 THEN name
                ELSE JoinWith(Take(parts, Len(parts) - 1), ".")
    IN <<stem[Len(stem)]>>

RECURSIVE SortedByLane(_)
\* sorted(data, key=lambda k: k["Lane"])
SortedByLane(rows) ==
    IF rows = <<>> THEN <<>>
    ELSE LET front == SortedByLane(SubSeq(rows, 1, Len(rows) - 1))
             x == rows[Len(rows)]
             n == Cardinality({i \in 1..Len(front) : ~ StrLess(x.Lane, front[i].Lane)})
         IN SubSeq(front, 1, n) \o <<x>> \o SubSeq(front, n + 1, Len(front))

\* glob(Demultiplexing_<id>/Undetermined*L0?<lane>*)
GlobUndeterminedOfLane(id, lane) ==
    SelectSeq(UndeterminedOf(id),
        LAMBDA f : \E i \in (Len(UndeterminedStr) + 1)..Len(f) :
                      /\ i + 2 + Len(lane) <= Len(f)
                      /\ SubSeq(f, i, i + 1) = <<"L", "0">>
                      /\ SubSeq(f, i + 3, i + 2 + Len(lane)) = lane)

\* The FastQ files of Undetermined linked as the FastQ files of the samples
\* of the rows of data, for the samples that got a fake index
NoIndexLinks(id, data) ==
    LET rows == SortedByLane(data) IN
    Flatten([k \in 1..Len(rows) |->
        LET project == rows[k].Sample_Project
            sample == rows[k].Sample_Name
            files == GlobUndeterminedOfLane(id, rows[k].Lane)
        IN <<MakeDirsIfAbsent(<<project>>), MakeDirsIfAbsent(<<project, sample>>)>>
           \o [f \in 1..Len(files) |->
                  LET old_name_comps == SplitOn(files[f], "_")
                      new_name == JoinWith(
                          <<sample, <<"S">> \o Str(k)>>
                              \o SubSeq(old_name_comps, 3, Len(old_name_comps)), "_")
                  IN Symlink(<<project, sample, new_name>>, id, <<files[f]>>)]])

\* _process_noindex_sample_with_fake_index_with_single_demux.
\* LaneBarcodeParser and open raise when the file is not there.
ProcessNoIndexSingleDemuxOps(demux_id) ==
    LET html == <<ReportsName, HtmlAllName>> IN
    NoIndexLinks(demux_id, FullSheet)
    \o <<MakeDirsIfAbsent(html),
         Symlink(Append(html, LaneHtmlName), demux_id, Append(html, LaneHtmlName))>>
    \o (IF ~ HasReport(demux_id, "laneBarcode.html")
        THEN <<RaiseOp("FileNotFoundError")>>
        ELSE IF ProcessNoIndexSingleDemux(demux_id).error # "none"
        THEN <<RaiseOp(ProcessNoIndexSingleDemux(demux_id).error)>>
        ELSE <<OpenW(Append(html, LaneBarcodeHtmlName)),
               MakeDirsIfAbsent(<<StatsName>>)>>
             \o (IF ~ HasReport(demux_id, "Stats.json")
                 THEN <<RaiseOp("FileNotFoundError")>>
                 ELSE <<OpenW(<<StatsName, StatsJsonName>>)>>))

\* _process_simple_lane_with_single_demux.  The new laneBarcode.html is
\* written through the link Reports, over the one of the sub-demultiplexing.
ProcessSimpleSingleDemuxOps(demux_id, noindex_lanes) ==
    LET elements == SelectSeq(TopElements(demux_id),
                        LAMBDA element : /\ ~ IsSubstring(StatsName, element)
                                         /\ ~ IsSubstring(ReportsName, element))
        four == <<DemultiplexingStatsName, AdapterTrimmingName,
                  ConversionStatsName, StatsJsonName>>
        statsFiles == SelectSeq(StatsFiles(demux_id),
                        LAMBDA source_name :
                            /\ ~ InSeq(source_name, four)
                            /\ ~ InSeq(LastOfStem(source_name), noindex_lanes))
        laneBarcode == <<ReportsName, HtmlAllName, LaneBarcodeHtmlName>>
    IN [k \in 1..Len(elements) |->
            Symlink(<<elements[k]>>, demux_id, <<elements[k]>>)]
       \o <<MakeDirs(<<StatsName>>)>>
       \o [k \in 1..Len(statsFiles) |->
            Symlink(<<StatsName, statsFiles[k]>>, demux_id, <<StatsName, statsFiles[k]>>)]
       \o [k \in 1..Len(four) |->
            Symlink(<<StatsName, four[k]>>, demux_id, <<StatsName, four[k]>>)]
       \o <<ReplaceReports(demux_id)>>
       \o (IF HasReport(demux_id, "laneBarcode.html")
           THEN <<OpenW(laneBarcode)>> ELSE <<>>)

StartsWith(str, prefix) == Take(str, Len(prefix)) = prefix

EndsWith(str, suffix) ==
    Len(suffix) <= Len(str) /\ SubSeq(str, Len(str) - Len(suffix) + 1, Len(str)) = suffix

\* The links of the FastQ files of the samples of a sub-demultiplexing, and
\* for its simple lanes those of the FastQ files of Undetermined and of the
\* DemuxSummary files
OrdinaryLinks(id, simple_lanes) ==
    LET projects == SelectSeq(ProjectsOf(id) \o <<StatsName, ReportsName>>,
                        LAMBDA project : /\ ~ IsSubstring(project, ReportsName)
                                         /\ ~ IsSubstring(project, StatsName))
        lanes == SelectSeq(LanesOf(id), LAMBDA lane : lane \in DOMAIN simple_lanes)
    IN Flatten([j \in 1..Len(projects) |->
           <<MakeDirsIfAbsent(<<projects[j]>>)>>
           \o Flatten([m \in 1..Len(SamplesOf(id, projects[j])) |->
                LET sample == SamplesOf(id, projects[j])[m]
                    fastqfiles == FastqOf(id, projects[j], sample)
                IN <<MakeDirsIfAbsent(<<projects[j], sample>>)>>
                   \o [f \in 1..Len(fastqfiles) |->
                          Symlink(<<projects[j], sample, fastqfiles[f]>>, id,
                                  <<projects[j], sample, fastqfiles[f]>>)]])])
       \o Flatten([j \in 1..Len(lanes) |->
            LET undetermined ==
                    SelectSeq(UndeterminedOf(id),
                        LAMBDA f :
                            /\ StartsWith(f, UndeterminedStr
                                   \o <<"_", "S", "0", "_", "L", "0", "0">> \o lanes[j])
                            /\ IsSubstring(<<".", "f", "a", "s", "t", "q">>, f))
                summaries ==
                    SelectSeq(StatsFiles(id),
                        LAMBDA f : /\ IsSubstring(<<"L">> \o lanes[j], f)
                                   /\ EndsWith(f, <<"t", "x", "t">>))
            IN [f \in 1..Len(undetermined) |->
                   Symlink(<<undetermined[f]>>, id, <<undetermined[f]>>)]
               \o <<MakeDirsIfAbsent(<<StatsName>>)>>
               \o [f \in 1..Len(summaries) |->
                      Symlink(<<StatsName, summaries[f]>>, id,
                              <<StatsName, summaries[f]>>)]])

\* _process_demux_with_complex_lanes
ProcessDemuxWithComplexLanesOps(samplesheets, cl) ==
    Flatten([i \in 1..Len(samplesheets) |->
        LET id == samplesheets[i]
            Required(file) ==
                IF HasReport(id, file) THEN <<>> ELSE <<RaiseOp("RuntimeError")>>
        IN Required("lane.html") \o Required("laneBarcode.html")
           \o Required("Stats.json")
           \o (IF /\ \E k \in 1..Len(LanesOf(id)) :
                        InSeq(LanesOf(id)[k], cl.noindex_lanes)
                  /\ index_cycles # <<0, 0>>
               THEN NoIndexLinks(id, SubSheet(id))
               ELSE OrdinaryLinks(id, cl.simple_lanes))])

\* _fix_html_reports_for_complex_lanes and _fix_demultiplexingstats_xml_dir
FixReportsAndStatsOps(samplesheets, cl) ==
    LET html == FixHtmlReports(cl.complex_lanes, cl.noindex_lanes,
                    [k \in 1..Len(samplesheets) |-> LaneHtml(samplesheets[k])],
                    [k \in 1..Len(samplesheets) |-> LaneBarcodeHtml(samplesheets[k])])
        stats == FixDemultiplexingStats(
                    [k \in 1..Len(samplesheets) |->
                        [demux_id |-> samplesheets[k],
                         data |-> StatsJson(samplesheets[k])]],
                    samplesheets, cl.simple_lanes, cl.complex_lanes,
                    cl.noindex_lanes, html.NumberReads_Summary)
        dir == <<ReportsName, HtmlAllName>>
        complex == SelectSeq([k \in 1..Len(SetToSeq(Lanes)) |-> Str(SetToSeq(Lanes)[k])],
                             LAMBDA lane : lane \in DOMAIN cl.complex_lanes)
    IN <<MakeDirsIfAbsent(<<ReportsName>>), MakeDirsIfAbsent(dir),
         OpenW(Append(dir, LaneHtmlName))>>
       \o (IF html.error # "none" THEN <<RaiseOp(html.error)>>
           ELSE <<OpenW(Append(dir, LaneBarcodeHtmlName)),
                  MakeDirsIfAbsent(<<StatsName>>),
                  OpenW(<<StatsName, StatsJsonName>>)>>
                \o (IF stats.error # "none" THEN <<RaiseOp(stats.error)>>
                    ELSE [k \in 1..Len(complex) |->
                             OpenW(<<StatsName, DemuxSummaryName(complex[k])>>)]
                         \o <<OpenW(<<StatsName, DemultiplexingStatsName>>)>>))

\* _aggregate_demux_results_simple_complex: the operations on Demultiplexing/
AggregateDemuxResultsOps(samplesheets) ==
    LET cl == ClassifyLanes(samplesheets) IN
    IF DOMAIN cl.complex_lanes = {} /\ Len(samplesheets) = 1
    THEN IF cl.noindex_lanes # <<>> /\ index_cycles # <<0, 0>>
         THEN ProcessNoIndexSingleDemuxOps(0)
         ELSE ProcessSimpleSingleDemuxOps(0, cl.noindex_lanes)
    ELSE LET links == ProcessDemuxWithComplexLanesOps(samplesheets, cl) IN
         IF \E k \in 1..Len(links) : links[k].op = "raise"
         THEN links
         ELSE links \o FixReportsAndStatsOps(samplesheets, cl)

\* _rename_undet for the lanes with one row in SampleSheet.csv, after the
\* aggregation: os.rename of Demultiplexing/Undetermined*L0?<lane>*
RenameUndet(fs) ==
    LET unpooled == {lane \in {FullSheet[k].Lane : k \in 1..Len(FullSheet)} :
                        Cardinality({k \in 1..Len(FullSheet) :
                                        FullSheet[k].Lane = lane}) = 1}
        samples_per_lane(lane) ==
            FullSheet[CHOOSE k \in 1..Len(FullSheet) :
                         /\ FullSheet[k].Lane = lane
                         /\ \A j \in (k + 1)..Len(FullSheet) :
                               FullSheet[j].Lane # lane].Sample_Name
        Matches(name, lane) ==
            /\ StartsWith(name, UndeterminedStr)
            /\ \E i \in (Len(UndeterminedStr) + 1)..Len(name) :
                  /\ i + 2 + Len(lane) <= Len(name)
                  /\ SubSeq(name, i, i + 1) = <<"L", "0">>
                  /\ SubSeq(name, i + 3, i + 2 + Len(lane)) = lane
        NewName(name, lane) ==
            LET comps == SplitOn(name, "_")
                renamed == [k \in 1..Len(comps) |->
                              IF k = 1 THEN samples_per_lane(lane)
                              ELSE IF k = 2 THEN comps[1] ELSE comps[k]]
            IN JoinWith([k \in 1..Len(renamed) |->
                            IF StartsWith(renamed[k], <<"L", "0", "0">>)
                            THEN <<"L", "0", "1">>
                                 \o SubSeq(renamed[k], 4, Len(renamed[k]))
                            ELSE renamed[k]], "_")
        LaneOf(e) == CHOOSE lane \in unpooled : Matches(e.path[1], lane)
        moved == {e \in fs : /\ Len(e.path) = 1
                             /\ \E lane \in unpooled : Matches(e.path[1], lane)}
    IN (fs \ moved)
       \cup {[e EXCEPT !.path = <<NewName(e.path[1], LaneOf(e))>>] : e \in moved}

\* _is_demultiplexing_done
IsDemultiplexingDone == Exists(demuxFs, <<StatsName, StatsJsonName>>)

\* get_run_status of a run whose sequencing is done
GetRunStatus ==
    IF IsDemultiplexingDone THEN "COMPLETED"
    ELSE IF launched THEN "IN_PROGRESS"
    ELSE "TO_START"

\* glob(run_dir/*_[0-9].csv): the samplesheets whose number is one digit
Glob == SelectSeq(globOrder, LAMBDA id : Len(Str(id)) = 1)

\* The kinds of the sample of the first SubJob and of the samples of the
\* SubJobs after it
FirstKinds == {"dual", "noindex"}

OtherKinds == {"short", "index2"}

InitRun ==
    /\ \E n \in 1..MaxDemux :
          \E first \in FirstKinds, other \in OtherKinds :
              /\ subjobs = [k \in 1..n |->
                               SubJobOf(k - 1, IF k = 1 THEN first ELSE other,
                                        IF k = 1 THEN Lanes ELSE {1})]
              /\ globOrder \in GlobOrders(n)
    /\ aggStatus = "idle"
    /\ merged = <<>>
    /\ elemStatus = "idle"
    /\ elemStart = <<>>
    /\ elemUnassigned = <<>>
    /\ IdleMask
    /\ IdleRun
    /\ IdleSheet
    /\ IdleStatus
    /\ IdleTransfer

\* demultiplex_run: it writes SampleSheet_<n>.csv for every SubJob, creates
\* Demultiplexing and starts the demultiplexers
DemultiplexRun ==
    /\ GetRunStatus = "TO_START"
    /\ launched' = TRUE
    /\ UNCHANGED <<finished, lost, demuxFs, attempts, finishedAtStart, fsAtStart,
                   elemRun>>
    /\ UNCHANGED aggVars
    /\ UNCHANGED maskVars
    /\ UNCHANGED sheetVars
    /\ UNCHANGED statusVars
    /\ UNCHANGED transferVars

\* The demultiplexer of a SubJob ends; the one of SubJob 0 may have failed
\* to write one of its reports
SubJobFinishes ==
    /\ launched
    /\ \E n \in 0..(Len(subjobs) - 1) :
          /\ n \notin finished
          /\ finished' = finished \cup {n}
          /\ IF n = 0 THEN lost' \in Reports \cup {"none"} ELSE lost' = lost
    /\ UNCHANGED <<launched, demuxFs, attempts, finishedAtStart, fsAtStart, elemRun>>
    /\ UNCHANGED aggVars
    /\ UNCHANGED maskVars
    /\ UNCHANGED sheetVars
    /\ UNCHANGED statusVars
    /\ UNCHANGED transferVars

\* The report that was not written is put in place
ReportRestored ==
    /\ lost # "none"
    /\ 0 \in finished
    /\ lost' = "none"
    /\ UNCHANGED <<launched, finished, demuxFs, attempts, finishedAtStart,
                   fsAtStart, elemRun>>
    /\ UNCHANGED aggVars
    /\ UNCHANGED maskVars
    /\ UNCHANGED sheetVars
    /\ UNCHANGED statusVars
    /\ UNCHANGED transferVars

\* check_run_status, called for a run that is IN_PROGRESS
CheckRunStatus ==
    /\ GetRunStatus = "IN_PROGRESS"
    /\ elemRun = "idle"
    /\ attempts < MaxAttempts
    /\ IF \A k \in 1..Len(Glob) : Glob[k] \in finished
       THEN LET r == RunOps(demuxFs, AggregateDemuxResultsOps(Glob), 1) IN
            /\ demuxFs' = IF r.error = "none" THEN RenameUndet(r.fs) ELSE r.fs
            /\ aggStatus' = IF r.error = "none" THEN "done" ELSE "raised"
            /\ merged' = IF r.error = "none" THEN AggregateDemuxResults(Glob)
                         ELSE [error |-> r.error]
            /\ attempts' = attempts + 1
            /\ finishedAtStart' = finished
            /\ fsAtStart' = demuxFs
       ELSE UNCHANGED <<demuxFs, aggStatus, merged, attempts, finishedAtStart,
                        fsAtStart>>
    /\ UNCHANGED <<launched, finished, lost, elemRun>>
    /\ UNCHANGED <<subjobs, globOrder, elemStatus, elemStart, elemUnassigned>>
    /\ UNCHANGED maskVars
    /\ UNCHANGED sheetVars
    /\ UNCHANGED statusVars
    /\ UNCHANGED transferVars

\* Element's aggregate_demux_results, called when every sub-demultiplexing
\* has ended: Demultiplexing is there, and self.clear_dir(path) is a call of
\* a function of the class that is defined with the parameter (dir) only:
\* TypeError
ElementAggregateDemuxResults ==
    /\ launched
    /\ finished = 0..(Len(subjobs) - 1)
    /\ elemRun = "idle"
    /\ attempts = 0
    /\ elemRun' = "raised"
    /\ UNCHANGED <<launched, finished, lost, demuxFs, attempts, finishedAtStart,
                   fsAtStart>>
    /\ UNCHANGED aggVars
    /\ UNCHANGED maskVars
    /\ UNCHANGED sheetVars
    /\ UNCHANGED statusVars
    /\ UNCHANGED transferVars

NextRun ==
    \/ DemultiplexRun
    \/ SubJobFinishes
    \/ ReportRestored
    \/ CheckRunStatus
    \/ ElementAggregateDemuxResults

SpecRun == InitRun /\ [][NextRun]_vars

(***************************************************************************)
(* Vocabulary of the properties of the run directory.                      *)
(***************************************************************************)
\* The SubJobs demultiplex_run has created
AllSubJobs == 0..(Len(subjobs) - 1)

\* A step that invokes the aggregation
AggregationStep == attempts' = attempts + 1

\* What an aggregation of the present SubJobs makes of an empty
\* Demultiplexing
FirstTime == RunOps({}, AggregateDemuxResultsOps(Glob), 1)

(***************************************************************************)
(* C1 as stated: when the aggregation has raised, Demultiplexing/Stats/    *)
(* Stats.json does not exist, so get_run_status does not return COMPLETED. *)
(***************************************************************************)
C1_Original ==
    aggStatus = "raised" => /\ ~ IsDemultiplexingDone
                            /\ GetRunStatus # "COMPLETED"

(***************************************************************************)
(* C2 as stated: check_run_status invokes the aggregation only when every  *)
(* SubJob that demultiplex_run created has ended, whatever their number.   *)
(***************************************************************************)
C2_Original == attempts > 0 => finishedAtStart = AllSubJobs

(***************************************************************************)
(* C3 as stated: an aggregation invoked again after an attempt that failed *)
(* part-way and left entries under Demultiplexing succeeds once the        *)
(* reports of all the SubJobs are there, and the tree it leaves is the one *)
(* a first aggregation produces.                                           *)
(***************************************************************************)
C3_Original ==
    [][(/\ AggregationStep
        /\ aggStatus = "raised"
        /\ demuxFs # {}
        /\ lost = "none"
        /\ finished = AllSubJobs
        /\ FirstTime.error = "none")
          => /\ aggStatus' = "done"
             /\ demuxFs' = RenameUndet(FirstTime.fs)]_vars

(***************************************************************************)
(* C4 as stated: every aggregation takes its first merge step in a         *)
(* Demultiplexing that has been cleared, so nothing an earlier attempt     *)
(* left is part of the result; Element's aggregation gets past the         *)
(* clearing.                                                               *)
(***************************************************************************)
C4_Original ==
    /\ attempts > 0 => fsAtStart = {}
    /\ elemRun # "raised"

(***************************************************************************)
(* C5 as stated: an aggregation invoked while a report of a SubJob is      *)
(* missing ends with an error, in the path of one SubJob as in the path of *)
(* several.                                                                *)
(***************************************************************************)
C5_Original ==
    [][(AggregationStep /\ lost # "none") => aggStatus' = "raised"]_vars

(***************************************************************************)
(* Sample sheet classifier: Standard_Run._classify_samples.  The regular   *)
(* expressions of the module are matched with findall, that is anywhere in *)
(* the string.                                                             *)
(***************************************************************************)
\* s[p:p + Len(lit)] == lit
LitAt(s, p, lit) ==
    /\ p >= 1
    /\ p + Len(lit) - 1 <= Len(s)
    /\ SubSeq(s, p, p + Len(lit) - 1) = lit

CharAt(s, p, set) == p >= 1 /\ p <= Len(s) /\ s[p] \in set

Digits19 == {"1", "2", "3", "4", "5", "6", "7", "8", "9"}

Digits09 == Digits19 \cup {"0"}

\* SI-(?:<one of kinds>)-[A-H][1-9][0-2]? found in s
TenXMatch(s, kinds) ==
    \E p \in 1..Len(s) :
        /\ LitAt(s, p, <<"S", "I", "-">>)
        /\ \E kind \in kinds : LitAt(s, p + 3, kind)
        /\ LitAt(s, p + 5, <<"-">>)
        /\ CharAt(s, p + 6, {"A", "B", "C", "D", "E", "F", "G", "H"})
        /\ CharAt(s, p + 7, Digits19)

\* TENX_SINGLE_PAT.findall(s)
TENX_SINGLE_PAT(s) == TenXMatch(s, {<<"G", "A">>, <<"N", "A">>})

\* TENX_DUAL_PAT.findall(s)
TENX_DUAL_PAT(s) ==
    TenXMatch(s, {<<"T", "T">>, <<"N", "T">>, <<"N", "N">>, <<"T", "N">>,
                  <<"T", "S">>})

\* SMARTSEQ_PAT.findall(s): SMARTSEQ[1-9]?-[1-9][0-9]?[A-P]
SMARTSEQ_PAT(s) ==
    \E p \in 1..Len(s), o1 \in {0, 1}, o2 \in {0, 1} :
        /\ LitAt(s, p, <<"S", "M", "A", "R", "T", "S", "E", "Q">>)
        /\ o1 = 1 => CharAt(s, p + 8, Digits19)
        /\ LitAt(s, p + 8 + o1, <<"-">>)
        /\ CharAt(s, p + 9 + o1, Digits19)
        /\ o2 = 1 => CharAt(s, p + 10 + o1, Digits09)
        /\ CharAt(s, p + 10 + o1 + o2,
                  {"A", "B", "C", "D", "E", "F", "G", "H", "I", "J", "K", "L",
                   "M", "N", "O", "P"})

\* IDT_UMI_PAT.findall(s): ([ATCG]{4,}N+$)
IDT_UMI_PAT(s) ==
    \E k \in 1..Len(s) :
        /\ Len(s) - k >= 4
        /\ \A j \in (Len(s) - k + 1)..Len(s) : s[j] = "N"
        /\ \A j \in (Len(s) - k - 3)..(Len(s) - k) : s[j] \in {"A", "T", "C", "G"}

\* RECIPE_PAT.findall(s): [0-9]+-[0-9]+
RECIPE_PAT(s) ==
    \E p \in 1..Len(s) :
        /\ CharAt(s, p, Digits09)
        /\ LitAt(s, p + 1, <<"-">>)
        /\ CharAt(s, p + 2, Digits09)

\* str.replace(c, "")
Without(s, c) == SelectSeq(s, LAMBDA x : x # c)

\* str.count(c)
Count(s, c) == Len(SelectSeq(s, LAMBDA x : x = c))

\* int(s) of a string of digits
ParseInt(s) == DigitsValue(s, 0)

\* The names of a 10X single index and of a 10X dual index in the table
TenXSingleName == <<"S", "I", "-", "G", "A", "-", "A", "1">>

TenXDualName == <<"S", "I", "-", "T", "T", "-", "A", "1">>

\* index_dict_tenX and index_dict_smartseq: the lookup tables of the
\* configuration, name to barcodes
TenXNames == {TenXSingleName, TenXDualName}

index_dict_tenX(name) ==
    IF name = TenXSingleName
    THEN <<<<"G", "G">>, <<"T", "T">>, <<"C", "C">>, <<"A", "A">>>>
    ELSE <<<<"G", "T">>, <<"T", "G", "A">>, <<"C", "A", "T">>>>

SmartseqNames == {<<"1", "A">>}

index_dict_smartseq(name) ==
    <<<<<<"A", "A">>, <<"C", "C">>>>, <<<<"T", "T">>, <<"G", "G">>>>>>

\* The cycles of the reads of runSetup with IsIndexedRead == flag: the pair
\* [cycles of the read whose Number is first, cycles of another such read],
\* each the one of the last such read, 0 without one
CyclesOf(setup, flag, first) ==
    LET at(is_first) ==
            {i \in 1..Len(setup) :
                /\ setup[i].IsIndexedRead = flag
                /\ (setup[i].Number = first) = is_first}
        last(S) == CHOOSE i \in S : \A j \in S : j <= i
        of(is_first) ==
            IF at(is_first) = {} THEN 0 ELSE setup[last(at(is_first))].NumCycles
    IN <<of(TRUE), of(FALSE)>>

\* index_cycles of _classify_samples and _generate_samplesheet_subset
IndexCyclesOf(setup) == CyclesOf(setup, "Y", 2)

\* read_cycles of _classify_samples
ReadCyclesOf(setup) == CyclesOf(setup, "N", 1)

\* What stands for an exception among the values of a function
ValueError == <<"ValueError">>

KeyError == <<"KeyError">>

AllDigits(s) == s # <<>> /\ \A i \in 1..Len(s) : s[i] \in Digits09

\* ss_read_length: the lengths of Recipe, [0, 0] without a Recipe that
\* matches, ValueError when int() raises
SsReadLength(recipe) ==
    IF recipe # <<>> /\ RECIPE_PAT(recipe)
    THEN LET parts == SplitOn(recipe, "-") IN
         IF AllDigits(parts[1]) /\ AllDigits(parts[2])
         THEN <<ParseInt(parts[1]), ParseInt(parts[2])>>
         ELSE ValueError
    ELSE <<0, 0>>

\* read_length with every Recipe that matches taken, also 0-0
ReadLengthAlwaysMin(ss_read_length, read_cycles) ==
    <<Min(ss_read_length[1], read_cycles[1]),
      Min(ss_read_length[2], read_cycles[2])>>

\* read_length: "By default use the read cycles from the sequncing setup.
\* Otherwise use the shorter read length"
ReadLength(ss_read_length, read_cycles) ==
    IF ss_read_length # <<0, 0>>
    THEN <<Min(ss_read_length[1], read_cycles[1]),
           Min(ss_read_length[2], read_cycles[2])>>
    ELSE read_cycles

Detail(sample_type, index_length, umi_length, read_length) ==
    [error |-> "none", sample_type |-> sample_type, index_length |-> index_length,
     umi_length |-> umi_length, read_length |-> read_length]

\* The if/elif chain of _classify_samples with Smart-seq tested before the
\* UMI pattern
TypeAndLengthsSmartseqFirst(index, index2, idx_cycles) ==
    IF TENX_SINGLE_PAT(index)
    THEN IF index \in TenXNames
         THEN <<"10X_SINGLE", <<Len(index_dict_tenX(index)[1]), 0>>, <<0, 0>>>>
         ELSE KeyError
    ELSE IF TENX_DUAL_PAT(index)
    THEN IF index \in TenXNames
         THEN <<"10X_DUAL", <<Len(index_dict_tenX(index)[1]),
                              Len(index_dict_tenX(index)[2])>>, <<0, 0>>>>
         ELSE KeyError
    ELSE IF SMARTSEQ_PAT(index)
    THEN LET smartseq_index == SplitOn(index, "-")[2] IN
         IF smartseq_index \in SmartseqNames
         THEN <<"SMARTSEQ", <<Len(index_dict_smartseq(smartseq_index)[1][1]),
                              Len(index_dict_smartseq(smartseq_index)[1][2])>>,
                <<0, 0>>>>
         ELSE KeyError
    ELSE IF IDT_UMI_PAT(index) \/ IDT_UMI_PAT(index2)
    THEN <<"IDT_UMI", <<Len(Without(index, "N")), Len(Without(index2, "N"))>>,
           <<Count(Upper(index), "N"), Count(Upper(index2), "N")>>>>
    ELSE IF Upper(index) = NoIndexStr /\ idx_cycles # <<0, 0>>
    THEN <<"NOINDEX", idx_cycles, <<0, 0>>>>
    ELSE IF Upper(index) = NoIndexStr /\ idx_cycles = <<0, 0>>
    THEN <<"ordinary", <<0, 0>>, <<0, 0>>>>
    ELSE LET index_length == <<Len(index), Len(index2)>> IN
         IF \/ index_length[1] <= 8 /\ index_length[2] = 0
            \/ index_length[1] = 0 /\ index_length[2] <= 8
         THEN <<"short_single_index", index_length, <<0, 0>>>>
         ELSE <<"ordinary", index_length, <<0, 0>>>>

\* The if/elif chain of _classify_samples: sample_type, index_length and
\* umi_length, or KeyError when a name is not in its table
TypeAndLengths(index, index2, idx_cycles) ==
    IF TENX_SINGLE_PAT(index)
    THEN IF index \in TenXNames
         THEN <<"10X_SINGLE", <<Len(index_dict_tenX(index)[1]), 0>>, <<0, 0>>>>
         ELSE KeyError
    ELSE IF TENX_DUAL_PAT(index)
    THEN IF index \in TenXNames
         THEN <<"10X_DUAL", <<Len(index_dict_tenX(index)[1]),
                              Len(index_dict_tenX(index)[2])>>, <<0, 0>>>>
         ELSE KeyError
    ELSE IF IDT_UMI_PAT(index) \/ IDT_UMI_PAT(index2)
    THEN <<"IDT_UMI", <<Len(Without(index, "N")), Len(Without(index2, "N"))>>,
           <<Count(Upper(index), "N"), Count(Upper(index2), "N")>>>>
    ELSE IF SMARTSEQ_PAT(index)
    THEN LET smartseq_index == SplitOn(index, "-")[2] IN
         IF smartseq_index \in SmartseqNames
         THEN <<"SMARTSEQ", <<Len(index_dict_smartseq(smartseq_index)[1][1]),
                              Len(index_dict_smartseq(smartseq_index)[1][2])>>,
                <<0, 0>>>>
         ELSE KeyError
    ELSE IF Upper(index) = NoIndexStr /\ idx_cycles # <<0, 0>>
    THEN <<"NOINDEX", idx_cycles, <<0, 0>>>>
    ELSE IF Upper(index) = NoIndexStr /\ idx_cycles = <<0, 0>>
    THEN <<"ordinary", <<0, 0>>, <<0, 0>>>>
    ELSE LET index_length == <<Len(index), Len(index2)>> IN
         IF \/ index_length[1] <= 8 /\ index_length[2] = 0
            \/ index_length[1] = 0 /\ index_length[2] <= 8
         THEN <<"short_single_index", index_length, <<0, 0>>>>
         ELSE <<"ordinary", index_length, <<0, 0>>>>

\* The body of "for sample in ssparser.data": the detail of one sample, or
\* the error raised
ClassifySample(sample, setup) ==
    LET ss_read_length == SsReadLength(sample.Recipe) IN
    IF ss_read_length = ValueError THEN [error |-> "ValueError"]
    ELSE LET t == TypeAndLengths(sample.index, sample.index2,
                                 IndexCyclesOf(setup)) IN
         IF t = KeyError THEN [error |-> "KeyError"]
         ELSE Detail(t[1], t[2], t[3],
                     ReadLength(ss_read_length, ReadCyclesOf(setup)))

RECURSIVE ClassifyRows(_, _, _)
\* _classify_samples: sample_table as the list of its (lane, sample_name,
\* detail) in the order of the rows, or the error the first bad row raises.
\* sample_table[lane] are the entries of the lane, and the lanes are in the
\* order of their first row.
ClassifyRows(data, k, setup) ==
    IF k > Len(data) THEN [error |-> "none", table |-> <<>>]
    ELSE LET d == ClassifySample(data[k], setup) IN
         IF d.error # "none" THEN [error |-> d.error, table |-> <<>>]
         ELSE LET rest == ClassifyRows(data, k + 1, setup) IN
              IF rest.error # "none" THEN rest
              ELSE [error |-> "none",
                    table |-> <<[lane |-> data[k].Lane,
                                 sample_name |-> data[k].Sample_Name,
                                 sample_type |-> d.sample_type,
                                 index_length |-> d.index_length,
                                 umi_length |-> d.umi_length,
                                 read_length |-> d.read_length]>>
                              \o rest.table]

ClassifySamples(data, setup) == ClassifyRows(data, 1, setup)

(***************************************************************************)
(* Lane partitioner: Standard_Run.demultiplex_run                          *)
(***************************************************************************)
\* The keys of sample_table, in insertion order
TableLanes(table) == Dedup([k \in 1..Len(table) |-> table[k].lane])

\* sample_table[lane]
LaneContents(table, lane) == SelectSeq(table, LAMBDA e : e.lane = lane)

\* sorted(sample_type_list): upper case letters and digits sort before
\* lower case letters
SortedSampleTypes(table) ==
    SelectSeq(<<"10X_DUAL", "10X_SINGLE", "IDT_UMI", "NOINDEX", "SMARTSEQ",
                "ordinary", "short_single_index">>,
              LAMBDA ty : \E k \in 1..Len(table) : table[k].sample_type = ty)

MaskOf(e) == <<e.index_length, e.umi_length, e.read_length>>

\* lane_table[lane] with the masks in another order from the second call on
LaneTableOrderByCall(table, sample_type, lane) ==
    LET of_type == SelectSeq(LaneContents(table, lane),
                             LAMBDA e : e.sample_type = sample_type)
        masks == Dedup([k \in 1..Len(of_type) |-> MaskOf(of_type[k])])
    IN IF demuxRuns = 0 THEN masks
       ELSE [k \in 1..Len(masks) |-> masks[Len(masks) + 1 - k]]

\* lane_table[lane] of a sample type: the distinct masks of the samples of
\* the type in the lane, in the order of the rows; <<>> for a lane that is
\* not a key
LaneTable(table, sample_type, lane) ==
    LET of_type == SelectSeq(LaneContents(table, lane),
                             LAMBDA e : e.sample_type = sample_type)
    IN Dedup([k \in 1..Len(of_type) |-> MaskOf(of_type[k])])

\* unique_masks of bclconvert
UniqueMasks(table, sample_type) ==
    LET lanes == TableLanes(table) IN
    Dedup(Flatten([k \in 1..Len(lanes) |-> LaneTable(table, sample_type, lanes[k])]))

\* The longest of a list of integers, 0 for none
MaxOf(ns) == IF ns = <<>> THEN 0
             ELSE CHOOSE m \in {ns[k] : k \in 1..Len(ns)} :
                      \A k \in 1..Len(ns) : ns[k] <= m

\* demux_number_with_the_same_sample_type with the masks of bcl2fastq
\* counted as those of bclconvert are
DemuxNumberUnionAlways(table, sample_type, sw) ==
    Len(UniqueMasks(table, sample_type))

\* demux_number_with_the_same_sample_type
DemuxNumber(table, sample_type, sw) ==
    IF sw = "bcl2fastq"
    THEN LET lanes == TableLanes(table) IN
         MaxOf([k \in 1..Len(lanes) |-> Len(LaneTable(table, sample_type, lanes[k]))])
    ELSE Len(UniqueMasks(table, sample_type))

\* The mask of lane in SubJob i (i = 0, 1, ...) of a sample type, <<>> when
\* the lane is skipped
MaskOfLane(table, sample_type, sw, i, lane) ==
    LET masks == LaneTable(table, sample_type, lane) IN
    IF sw = "bcl2fastq"
    THEN IF i + 1 <= Len(masks) THEN masks[i + 1] ELSE <<>>
    ELSE LET mask == UniqueMasks(table, sample_type)[i + 1] IN
         IF InSeq(mask, masks) THEN mask ELSE <<>>

\* samples_to_include[lane]: the names of the samples of the lane with the
\* type and the mask of the SubJob, one for every row
SamplesToInclude(table, sample_type, lane, mask) ==
    LET sel == SelectSeq(LaneContents(table, lane),
                         LAMBDA e : e.sample_type = sample_type /\ MaskOf(e) = mask)
    IN [k \in 1..Len(sel) |-> sel[k].sample_name]

\* One SubJob of a sample type: mask_table and samples_to_include as the
\* lists of their (lane, value), in the order of the lanes of sample_table
SubJobPlan(table, sample_type, sw, i) ==
    LET lanes == SelectSeq(TableLanes(table),
                           LAMBDA lane : MaskOfLane(table, sample_type, sw, i, lane) # <<>>)
    IN [sample_type |-> sample_type,
        mask_table |-> [k \in 1..Len(lanes) |->
                           [lane |-> lanes[k],
                            mask |-> MaskOfLane(table, sample_type, sw, i, lanes[k])]],
        samples_to_include |->
            [k \in 1..Len(lanes) |->
                [lane |-> lanes[k],
                 samples |-> SamplesToInclude(table, sample_type, lanes[k],
                                MaskOfLane(table, sample_type, sw, i, lanes[k]))]]]

\* The SubJobs of demultiplex_run in the order of bcl_cmd_counter
SubJobPlans(table, sw) ==
    LET types == SortedSampleTypes(table) IN
    Flatten([t \in 1..Len(types) |->
                [i \in 1..DemuxNumber(table, types[t], sw) |->
                    SubJobPlan(table, types[t], sw, i - 1)]])

(***************************************************************************)
(* Standard_Run._generate_clean_samplesheet: the rows of SampleSheet.csv.  *)
(* Sample_ID is taken equal to Sample_Name, and no name ends in __qPCR_.   *)
(***************************************************************************)
\* The rows appended for a row with n barcodes: one for every barcode but
\* the last, in the order of the barcodes
NewSamples(sample, n, index_of, index2_of) ==
    [x \in 1..(n - 1) |->
        [sample EXCEPT !.index = index_of[x], !.index2 = index2_of[x]]]

\* The body of "for sample in ssparser.data" with the original row given
\* the first barcode
CleanRowFirstKept(data, k) ==
    LET sample == data[k] IN
    IF sample.index \in TenXNames
    THEN LET barcodes == index_dict_tenX(sample.index) IN
         IF TENX_DUAL_PAT(sample.index)
         THEN [data EXCEPT ![k].index = barcodes[1], ![k].index2 = barcodes[2]]
         ELSE [data EXCEPT ![k].index = barcodes[1]]
              \o NewSamples(sample, Len(barcodes), barcodes,
                            [x \in 1..Len(barcodes) |-> sample.index2])
    ELSE IF SMARTSEQ_PAT(sample.index)
    THEN LET pairs == index_dict_smartseq(SplitOn(sample.index, "-")[2]) IN
         [data EXCEPT ![k].index = pairs[Len(pairs)][1],
                      ![k].index2 = pairs[Len(pairs)][2]]
         \o NewSamples(sample, Len(pairs), [x \in 1..Len(pairs) |-> pairs[x][1]],
                       [x \in 1..Len(pairs) |-> pairs[x][2]])
    ELSE data

\* The body of "for sample in ssparser.data" for the row at position k:
\* ssparser.data after it.  New rows are appended to the list that is
\* being walked.
CleanRow(data, k) ==
    LET sample == data[k] IN
    IF sample.index \in TenXNames
    THEN LET barcodes == index_dict_tenX(sample.index) IN
         IF TENX_DUAL_PAT(sample.index)
         THEN [data EXCEPT ![k].index = barcodes[1], ![k].index2 = barcodes[2]]
         ELSE [data EXCEPT ![k].index = barcodes[Len(barcodes)]]
              \o NewSamples(sample, Len(barcodes), barcodes,
                            [x \in 1..Len(barcodes) |-> sample.index2])
    ELSE IF SMARTSEQ_PAT(sample.index)
    THEN LET pairs == index_dict_smartseq(SplitOn(sample.index, "-")[2]) IN
         [data EXCEPT ![k].index = pairs[Len(pairs)][1],
                      ![k].index2 = pairs[Len(pairs)][2]]
         \o NewSamples(sample, Len(pairs), [x \in 1..Len(pairs) |-> pairs[x][1]],
                       [x \in 1..Len(pairs) |-> pairs[x][2]])
    ELSE data

RECURSIVE CleanLoop(_, _)
\* "for sample in ssparser.data", from position k on
CleanLoop(data, k) ==
    IF k > Len(data) THEN data ELSE CleanLoop(CleanRow(data, k), k + 1)

SampleKeyLess(a, b) ==
    \/ StrLess(a.Lane, b.Lane)
    \/ a.Lane = b.Lane /\ StrLess(a.Sample_Name, b.Sample_Name)

\* ssparser.data.sort(key=lambda item: (item.get("Lane"), item.get("Sample_ID"))):
\* a stable sort, a row goes behind the rows with a smaller key and behind
\* the rows before it with the same key
SortedSamples(rows) ==
    LET before(i) ==
            Cardinality({j \in 1..Len(rows) :
                \/ SampleKeyLess(rows[j], rows[i])
                \/ j < i /\ ~ SampleKeyLess(rows[i], rows[j])})
    IN [p \in 1..Len(rows) |->
           rows[CHOOSE i \in 1..Len(rows) : before(i) = p - 1]]

\* _generate_clean_samplesheet: the data rows it writes
GenerateCleanSamplesheet(data) == SortedSamples(CleanLoop(data, 1))

(***************************************************************************)
(* Standard_Run._generate_samplesheet_subset: the data rows of             *)
(* SampleSheet_<n>.csv.  The columns index and index2 are there, index     *)
(* before index2.                                                          *)
(***************************************************************************)
\* The line as the loop over datafields leaves it
SubsetLine(line, idx_cycles) ==
    LET noindex_flag == IsSubstring(NoIndexStr, Upper(line.index))
        index_1 == IF noindex_flag THEN Repeat("T", idx_cycles[1]) ELSE line.index
        index_2 == IF IDT_UMI_PAT(index_1) THEN Without(index_1, "N") ELSE index_1
        index2_1 == IF noindex_flag THEN Repeat("A", idx_cycles[2]) ELSE line.index2
        index2_2 == IF IDT_UMI_PAT(index2_1) THEN Without(index2_1, "N") ELSE index2_1
    IN [line EXCEPT !.index = index_2, !.index2 = index2_2]

\* line is written: its lane is a key of samples_to_include and its name is
\* in the list of the lane
IsIncluded(line, samples_to_include) ==
    \E k \in 1..Len(samples_to_include) :
        /\ samples_to_include[k].lane = line.Lane
        /\ InSeq(line.Sample_Name, samples_to_include[k].samples)

\* ssparser.data after the call: the lines written are changed in place
SubsetData(data, samples_to_include, idx_cycles) ==
    [k \in 1..Len(data) |->
        IF IsIncluded(data[k], samples_to_include)
        THEN SubsetLine(data[k], idx_cycles) ELSE data[k]]

\* The data rows written
GenerateSamplesheetSubset(data, samples_to_include, idx_cycles) ==
    SelectSeq(SubsetData(data, samples_to_include, idx_cycles),
              LAMBDA line : IsIncluded(line, samples_to_include))

(***************************************************************************)
(* The sample sheets of a run: _copy_samplesheet, then demultiplex_run.    *)
(***************************************************************************)
MaxRows == 3

EmptyStr == <<>>

\* The run setups: paired reads with two index reads, one read with one
\* index read, paired reads without an index read
SheetSetups ==
    {<<ReadOf(1, 11, "N"), ReadOf(2, 8, "Y"), ReadOf(3, 8, "Y"), ReadOf(4, 11, "N")>>,
     <<ReadOf(1, 11, "N"), ReadOf(2, 8, "Y")>>,
     <<ReadOf(1, 11, "N"), ReadOf(2, 11, "N")>>}

Row(lane, name, index, index2, recipe) ==
    [Lane |-> lane, Sample_Name |-> name, index |-> index, index2 |-> index2,
     Recipe |-> recipe]

\* index, index2 and Recipe of the sheets of one row
WideIndexes ==
    {EmptyStr, <<"A", "C", "G", "T">>, <<"A", "C", "G", "T", "A", "C", "G", "T">>, <<"A", "C", "G", "T", "A", "C", "G", "T", "A">>, <<"A", "C", "G", "T", "N", "N">>, <<"n", "A", "C", "G", "T", "N", "N">>, TenXSingleName, <<"S", "I", "-", "G", "A", "-", "H", "9">>,
     TenXDualName, <<"S", "M", "A", "R", "T", "S", "E", "Q", "-", "1", "A">>, NoIndexStr, <<"N", "o", "I", "n", "d", "e", "x">>}

WideIndexes2 == {EmptyStr, <<"A", "C", "G", "T">>, <<"A", "C", "G", "T", "N">>, <<"A", "C", "G", "T", "n">>, <<"A", "C", "G", "T", "A", "C", "G", "T", "A">>}

Recipes == {EmptyStr, <<"5", "-", "1", "2">>, <<"1", "2", "-", "5">>, <<"0", "-", "0">>, <<"0", "-", "5">>}

OneRowSheets ==
    {<<Row(<<"1">>, <<"S", "1">>, i1, i2, r)>> :
        i1 \in WideIndexes, i2 \in WideIndexes2, r \in Recipes}

\* The rows of the sheets of several rows
PoolIndexes ==
    {<<<<"A", "C", "G", "T">>, EmptyStr, EmptyStr>>, <<<<"A", "C", "G", "T">>, <<"A", "C", "G", "T">>, EmptyStr>>,
     <<<<"A", "C", "G", "T">>, EmptyStr, <<"5", "-", "1", "2">>>>, <<<<"A", "C", "G", "T", "N", "N">>, EmptyStr, EmptyStr>>,
     <<<<"N", "o", "I", "n", "d", "e", "x">>, EmptyStr, EmptyStr>>, <<TenXSingleName, EmptyStr, EmptyStr>>}

PoolRows ==
    {Row(lane, name, ix[1], ix[2], ix[3]) :
        lane \in {<<"1">>, <<"2">>}, name \in {<<"S", "1">>, <<"S", "2">>},
        ix \in PoolIndexes}

\* The rows of the longer sheets: plain indexes, with and without a Recipe
NarrowRows ==
    {row \in PoolRows : row.index = <<"A", "C", "G", "T">>}

Sheets ==
    OneRowSheets
    \cup [1..2 -> PoolRows]
    \cup UNION {[1..n -> NarrowRows] : n \in 3..MaxRows}

\* The arguments demultiplex_run and _generate_per_lane_base_mask give
\* _compute_base_mask for a mask of mask_table
MaskArgsOf(sample_type, mask) ==
    [sample_type |-> sample_type,
     index1_size |-> mask[1][1],
     is_dual_index |-> \/ mask[1][1] # 0 /\ mask[1][2] # 0
                       \/ mask[1][1] = 0 /\ mask[1][2] # 0,
     index2_size |-> mask[1][2],
     umi1_size |-> mask[2][1],
     umi2_size |-> mask[2][2],
     read1_size |-> mask[3][1],
     read2_size |-> mask[3][2]]

\* The base masks of a SubJob: the one of OverrideCycles for bclconvert, the
\* ones of --use-bases-mask lane by lane for bcl2fastq, and whether
\* _compute_base_mask raised
BaseMasks(plan, setup, sw) ==
    LET of(k) == ComputeBaseMask(setup, sw,
                     MaskArgsOf(plan.sample_type, plan.mask_table[k].mask))
        n == IF sw = "bclconvert" THEN 1 ELSE Len(plan.mask_table)
    IN [raised |-> \E k \in 1..n : of(k) = Raise,
        masks |-> [k \in 1..n |-> of(k)]]

RECURSIVE RunJobs(_, _, _, _, _)
\* The loop of demultiplex_run over the SubJobs from the k-th on: the
\* SubJobs started, ssparser.data after them, and whether it raised.  A
\* SubJob of bcl2fastq whose command raises has its samplesheet written.
RunJobs(plans, k, data, setup, sw) ==
    IF k > Len(plans) THEN [jobs |-> <<>>, data |-> data, raised |-> FALSE]
    ELSE LET plan == plans[k]
             base == BaseMasks(plan, setup, sw)
             idx_cycles == IndexCyclesOf(setup)
             rows == GenerateSamplesheetSubset(data, plan.samples_to_include, idx_cycles)
             after == SubsetData(data, plan.samples_to_include, idx_cycles)
             job == [sample_type |-> plan.sample_type,
                     mask_table |-> plan.mask_table,
                     samples_to_include |-> plan.samples_to_include,
                     rows |-> rows,
                     started |-> ~ base.raised]
         IN IF base.raised
            THEN IF sw = "bclconvert"
                 THEN [jobs |-> <<>>, data |-> data, raised |-> TRUE]
                 ELSE [jobs |-> <<job>>, data |-> after, raised |-> TRUE]
            ELSE LET rest == RunJobs(plans, k + 1, after, setup, sw) IN
                 [jobs |-> <<job>> \o rest.jobs, data |-> rest.data,
                  raised |-> rest.raised]

MaxCalls == 2

InitSheet ==
    /\ samplesheet \in Sheets
    /\ runSetup \in SheetSetups
    /\ software \in Softwares
    /\ bm = <<>> /\ maskStatus = "none" /\ maskArgs = <<>>
    /\ sheetStatus = "none" /\ sample_table = <<>> /\ ssdata = <<>>
    /\ jobs = <<>> /\ demuxStatus = "none" /\ demuxRuns = 0 /\ firstJobs = <<>>
    /\ cleanData = <<>> /\ cleanPos = 0
    /\ IdleAgg
    /\ IdleRun
    /\ IdleStatus
    /\ IdleTransfer

\* _copy_samplesheet: the samples are classified, SampleSheet.csv is written
\* and parsed again
CopySamplesheet ==
    /\ sheetStatus = "none"
    /\ LET r == ClassifySamples(samplesheet, runSetup) IN
       /\ sheetStatus' = IF r.error = "none" THEN "copied" ELSE r.error
       /\ sample_table' = r.table
       /\ ssdata' = IF r.error = "none" THEN GenerateCleanSamplesheet(samplesheet)
                    ELSE <<>>
    /\ UNCHANGED <<samplesheet, jobs, demuxStatus, demuxRuns, firstJobs,
                   cleanData, cleanPos>>
    /\ UNCHANGED maskVars
    /\ UNCHANGED aggVars
    /\ UNCHANGED runVars
    /\ UNCHANGED statusVars
    /\ UNCHANGED transferVars

\* demultiplex_run
DemultiplexRunSubJobs ==
    /\ sheetStatus = "copied"
    /\ demuxRuns < MaxCalls
    /\ LET r == RunJobs(SubJobPlans(sample_table, software), 1, ssdata,
                        runSetup, software) IN
       /\ jobs' = r.jobs
       /\ ssdata' = r.data
       /\ demuxStatus' = IF r.raised THEN "raised" ELSE "returned"
       /\ firstJobs' = IF demuxRuns = 0 THEN r.jobs ELSE firstJobs
    /\ demuxRuns' = demuxRuns + 1
    /\ UNCHANGED <<samplesheet, sheetStatus, sample_table, cleanData, cleanPos>>
    /\ UNCHANGED maskVars
    /\ UNCHANGED aggVars
    /\ UNCHANGED runVars
    /\ UNCHANGED statusVars
    /\ UNCHANGED transferVars

NextSheet == CopySamplesheet \/ DemultiplexRunSubJobs

SpecSheet == InitSheet /\ [][NextSheet]_vars

(***************************************************************************)
(* The loop of _generate_clean_samplesheet, one row at a time.             *)
(***************************************************************************)
CleanIndexes ==
    {<<TenXSingleName, EmptyStr>>, <<TenXDualName, EmptyStr>>,
     <<<<"S", "M", "A", "R", "T", "S", "E", "Q", "-", "1", "A">>, EmptyStr>>, <<<<"A", "C", "G", "T">>, <<"A", "C", "G", "T">>>>}

CleanRows ==
    {Row(lane, name, ix[1], ix[2], EmptyStr) :
        lane \in {<<"1">>, <<"2">>}, name \in {<<"S", "1">>, <<"S", "2">>},
        ix \in CleanIndexes}

MaxCleanRows == 3

InitClean ==
    /\ samplesheet \in UNION {[1..n -> CleanRows] : n \in 1..MaxCleanRows}
    /\ cleanData = samplesheet
    /\ cleanPos = 1
    /\ sheetStatus = "none" /\ sample_table = <<>> /\ ssdata = <<>>
    /\ jobs = <<>> /\ demuxStatus = "none" /\ demuxRuns = 0 /\ firstJobs = <<>>
    /\ IdleMask
    /\ IdleAgg
    /\ IdleRun
    /\ IdleStatus
    /\ IdleTransfer

\* One pass of the body of "for sample in ssparser.data"
CleanStep ==
    /\ cleanPos >= 1
    /\ cleanPos <= Len(cleanData)
    /\ cleanData' = CleanRow(cleanData, cleanPos)
    /\ cleanPos' = cleanPos + 1
    /\ UNCHANGED <<samplesheet, sheetStatus, sample_table, ssdata, jobs,
                   demuxStatus, demuxRuns, firstJobs>>
    /\ UNCHANGED maskVars
    /\ UNCHANGED aggVars
    /\ UNCHANGED runVars
    /\ UNCHANGED statusVars
    /\ UNCHANGED transferVars

\* The loop is over: ssparser.data.sort(...), and the rows are written
CleanSort ==
    /\ cleanPos > Len(cleanData)
    /\ cleanData' = SortedSamples(cleanData)
    /\ cleanPos' = 0
    /\ UNCHANGED <<samplesheet, sheetStatus, sample_table, ssdata, jobs,
                   demuxStatus, demuxRuns, firstJobs>>
    /\ UNCHANGED maskVars
    /\ UNCHANGED aggVars
    /\ UNCHANGED runVars
    /\ UNCHANGED statusVars
    /\ UNCHANGED transferVars

NextClean == CleanStep \/ CleanSort

\* The interpreter goes on with the loop until it is over
SpecClean == InitClean /\ [][NextClean]_vars /\ WF_vars(NextClean)

(***************************************************************************)
(* Properties of the sample sheets                                         *)
(***************************************************************************)
\* The rules of the classifier in their order, as what a row matches
RulesMatched(row, idx_cycles) ==
    <<TENX_SINGLE_PAT(row.index),
      TENX_DUAL_PAT(row.index),
      IDT_UMI_PAT(row.index) \/ IDT_UMI_PAT(row.index2),
      SMARTSEQ_PAT(row.index),
      Upper(row.index) = NoIndexStr /\ idx_cycles # <<0, 0>>,
      Upper(row.index) = NoIndexStr /\ idx_cycles = <<0, 0>>,
      \/ Len(row.index) <= 8 /\ Len(row.index2) = 0
      \/ Len(row.index) = 0 /\ Len(row.index2) <= 8,
      TRUE>>

RuleTypes ==
    <<"10X_SINGLE", "10X_DUAL", "IDT_UMI", "SMARTSEQ", "NOINDEX", "ordinary",
      "short_single_index", "ordinary">>

FirstRule(row, idx_cycles) ==
    LET m == RulesMatched(row, idx_cycles) IN
    CHOOSE i \in 1..Len(m) : m[i] /\ \A j \in 1..(i - 1) : ~ m[j]

C13_Original ==
    sheetStatus = "copied" =>
        \A k \in 1..Len(samplesheet) :
            sample_table[k].sample_type = "IDT_UMI" =>
                /\ sample_table[k].index_length[1] + sample_table[k].umi_length[1]
                       = Len(samplesheet[k].index)
                /\ sample_table[k].index_length[2] + sample_table[k].umi_length[2]
                       = Len(samplesheet[k].index2)

\* The (index_length, umi_length, read_length) tuples of a sample type in a
\* set of lanes of the classified sheet
TuplesOf(sample_type, lanes) ==
    {<<sample_table[k].index_length, sample_table[k].umi_length,
       sample_table[k].read_length>> :
        k \in {j \in 1..Len(sample_table) :
                  /\ sample_table[j].sample_type = sample_type
                  /\ sample_table[j].lane \in lanes}}

AllLanes == {sample_table[k].lane : k \in 1..Len(sample_table)}

\* The largest number of tuples of a sample type in one lane
MaxPerLane(sample_type) ==
    CHOOSE n \in 0..Len(sample_table) :
        /\ \A lane \in AllLanes : Cardinality(TuplesOf(sample_type, {lane})) <= n
        /\ n = 0 \/ \E lane \in AllLanes : Cardinality(TuplesOf(sample_type, {lane})) = n

JobsOfType(sample_type) ==
    Cardinality({k \in 1..Len(jobs) : jobs[k].sample_type = sample_type})

\* C14 as stated: for each sample type and for both programs, the number of
\* SubJobs of demultiplex_run is the largest number of distinct tuples of the
\* type in one lane
C14_Original ==
    demuxStatus = "returned" =>
        \A sample_type \in SampleTypes :
            JobsOfType(sample_type) = MaxPerLane(sample_type)

\* C14: the number of SubJobs of a sample type is the largest number of
\* distinct tuples of the type in one lane for bcl2fastq, and the number of
\* distinct tuples of the type in all lanes together for bclconvert
C14_MaxPerLaneOrAllLanes ==
    demuxStatus = "returned" =>
        \A sample_type \in SampleTypes :
            JobsOfType(sample_type) =
                IF software = "bcl2fastq" THEN MaxPerLane(sample_type)
                ELSE Cardinality(TuplesOf(sample_type, AllLanes))

\* bclconvert with two lanes of one tuple each, not the same one: two SubJobs
C14_Witness ==
    /\ demuxStatus = "returned"
    /\ software = "bclconvert"
    /\ MaxPerLane("short_single_index") = 1
    /\ JobsOfType("short_single_index") = 2

\* The (SubJob id, lane, sample) of a list of SubJobs
SampleAssignment(js) ==
    UNION {UNION {{<<k - 1, js[k].samples_to_include[l].lane,
                     js[k].samples_to_include[l].samples[n]>> :
                      n \in 1..Len(js[k].samples_to_include[l].samples)} :
                  l \in 1..Len(js[k].samples_to_include)} :
           k \in 1..Len(js)}

\* The (SubJob id, lane, mask tuple) of a list of SubJobs
MaskAssignment(js) ==
    UNION {{<<k - 1, js[k].mask_table[l].lane, js[k].mask_table[l].mask>> :
               l \in 1..Len(js[k].mask_table)} :
           k \in 1..Len(js)}

PairsOfJob(k) ==
    {<<a[2], a[3]>> : a \in {b \in SampleAssignment(jobs) : b[1] = k - 1}}

\* C16: the (lane, sample) sets of the SubJobs of demultiplex_run are
\* pairwise disjoint and cover every (lane, sample) of the classified sheet
C16_Original ==
    demuxStatus = "returned" =>
        /\ \A k1, k2 \in 1..Len(jobs) :
               k1 # k2 => PairsOfJob(k1) \cap PairsOfJob(k2) = {}
        /\ \A k \in 1..Len(sample_table) :
               \E j \in 1..Len(jobs) :
                   <<sample_table[k].lane, sample_table[k].sample_name>> \in PairsOfJob(j)

\* The names of a lane are on one row each
NamesOnce ==
    \A k1, k2 \in 1..Len(samplesheet) :
        (/\ samplesheet[k1].Lane = samplesheet[k2].Lane
         /\ samplesheet[k1].Sample_Name = samplesheet[k2].Sample_Name) => k1 = k2

\* With every name on one row of its lane the sets are disjoint and cover
C16_WhenNamesOnce == NamesOnce => C16_Original

\* The rows of the sheet that a row written to a SubJob samplesheet can come
\* from: the ones which _generate_clean_samplesheet and
\* _generate_samplesheet_subset turn into it
OriginsOf(r) ==
    {j \in 1..Len(samplesheet) :
        LET out == SubsetData(GenerateCleanSamplesheet(<<samplesheet[j]>>),
                              <<[lane |-> samplesheet[j].Lane,
                                 samples |-> <<samplesheet[j].Sample_Name>>]>>,
                              IndexCyclesOf(runSetup))
        IN \E n \in 1..Len(out) : out[n] = r}

\* C17: every row of the samplesheet of a SubJob comes from a row of the
\* sheet whose type is the type of the SubJob and whose (index_length,
\* umi_length, read_length) is the mask tuple of the SubJob for the lane, also
\* when a sample name is on several rows of the lane
C17_Original ==
    \A k \in 1..Len(jobs) :
        \A n \in 1..Len(jobs[k].rows) :
            LET r == jobs[k].rows[n] IN
            \E j \in OriginsOf(r) :
                /\ sample_table[j].sample_type = jobs[k].sample_type
                /\ \E l \in 1..Len(jobs[k].mask_table) :
                       /\ jobs[k].mask_table[l].lane = r.Lane
                       /\ jobs[k].mask_table[l].mask =
                              <<sample_table[j].index_length,
                                sample_table[j].umi_length,
                                sample_table[j].read_length>>

\* With every name on one row of its lane the rows of a SubJob are its own
C17_WhenNamesOnce == NamesOnce => C17_Original

\* Recipe has the form <int>-<int>
IsRecipe(recipe) ==
    LET parts == SplitOn(recipe, "-") IN
    Len(parts) = 2 /\ AllDigits(parts[1]) /\ AllDigits(parts[2])

\* C18: the read_length of every sample is the elementwise minimum of the
\* Recipe values and read_cycles when Recipe has the form <int>-<int>, values
\* of 0 too, and read_cycles otherwise; it exceeds read_cycles on no read
C18_Original ==
    sheetStatus = "copied" =>
        \A k \in 1..Len(samplesheet) :
            LET recipe == samplesheet[k].Recipe
                read_cycles == ReadCyclesOf(runSetup)
                parts == SplitOn(recipe, "-")
            IN /\ IsRecipe(recipe) =>
                      sample_table[k].read_length =
                          <<Min(ParseInt(parts[1]), read_cycles[1]),
                            Min(ParseInt(parts[2]), read_cycles[2])>>
               /\ ~ IsRecipe(recipe) => sample_table[k].read_length = read_cycles
               /\ sample_table[k].read_length[1] <= read_cycles[1]
               /\ sample_table[k].read_length[2] <= read_cycles[2]

\* The part of C18 that holds: no read_length exceeds read_cycles, and a
\* Recipe other than 0-0 is taken as the claim says
C18_ExceptZeroZero ==
    (\A k \in 1..Len(samplesheet) : samplesheet[k].Recipe # <<"0", "-", "0">>)
        => C18_Original

\* The rows written to the SubJob samplesheets for row j of the sheet, whose
\* name is on no other row of its lane: <<SubJob, row>>
WrittenFor(j) ==
    {kn \in UNION {{<<k, n>> : n \in 1..Len(jobs[k].rows)} : k \in 1..Len(jobs)} :
        /\ jobs[kn[1]].rows[kn[2]].Lane = samplesheet[j].Lane
        /\ jobs[kn[1]].rows[kn[2]].Sample_Name = samplesheet[j].Sample_Name}

NameOnce(j) ==
    \A i \in 1..Len(samplesheet) :
        (/\ samplesheet[i].Lane = samplesheet[j].Lane
         /\ samplesheet[i].Sample_Name = samplesheet[j].Sample_Name) => i = j

NoIndexWritten(j) ==
    /\ \A kn \in WrittenFor(j) :
           LET r == jobs[kn[1]].rows[kn[2]] IN
           /\ r.index = Repeat("T", IndexCyclesOf(runSetup)[1])
           /\ r.index2 = Repeat("A", IndexCyclesOf(runSetup)[2])
           /\ <<Len(r.index), Len(r.index2)>> = sample_table[j].index_length
    /\ demuxStatus = "returned" => WrittenFor(j) # {}

\* C19: a sample whose index is NOINDEX in any letter case is written to a
\* SubJob samplesheet with index a run of T of length index_cycles[0] and
\* index2 a run of A of length index_cycles[1], and these lengths are the
\* index_length the classifier gave the sample
C19_Original ==
    \A j \in 1..Len(samplesheet) :
        (Upper(samplesheet[j].index) = NoIndexStr /\ NameOnce(j))
            => NoIndexWritten(j)

\* C19 holds for the samples with no UMI pattern in index2
C19_WithoutUmi ==
    \A j \in 1..Len(samplesheet) :
        (/\ Upper(samplesheet[j].index) = NoIndexStr
         /\ NameOnce(j)
         /\ ~ IDT_UMI_PAT(samplesheet[j].index2))
            => NoIndexWritten(j)

(***************************************************************************)
(* Properties of the loop of _generate_clean_samplesheet                   *)
(***************************************************************************)
\* The rows of the sheet with a 10X single-index name
TenXSingleRows ==
    {j \in 1..Len(samplesheet) :
        TENX_SINGLE_PAT(samplesheet[j].index) /\ samplesheet[j].index \in TenXNames}

CountRows(data, row) == Cardinality({k \in 1..Len(data) : data[k] = row})

\* The loop is over and the rows are not sorted yet
LoopOver == cleanPos > Len(cleanData)

\* What the claim says of the rows when the loop is over
Expanded ==
    \A j \in TenXSingleRows :
        LET barcodes == index_dict_tenX(samplesheet[j].index)
            with(b) == [samplesheet[j] EXCEPT !.index = barcodes[b]]
        IN /\ cleanData[j] = with(Len(barcodes))
           /\ \A b \in 1..Len(barcodes) :
                  /\ CountRows(cleanData, with(b)) = CountRows(samplesheet, samplesheet[j])
                  /\ b < Len(barcodes) =>
                         \A k \in 1..Len(samplesheet) : cleanData[k] # with(b)
           /\ CountRows(cleanData, samplesheet[j]) = 0

C21_SimpleOrComplex ==
    aggStatus # "idle" =>
        LET cl == ClassifyLanes(globOrder) IN
        /\ DOMAIN cl.simple_lanes \cup DOMAIN cl.complex_lanes
               = {Str(lane) : lane \in CoveredLanes}
        /\ DOMAIN cl.simple_lanes \cap DOMAIN cl.complex_lanes = {}
        /\ \A lane \in CoveredLanes :
              /\ Str(lane) \in DOMAIN cl.simple_lanes <=> Len(Covering(lane)) = 1
              /\ Str(lane) \in DOMAIN cl.complex_lanes <=> Len(Covering(lane)) >= 2
              /\ Str(lane) \in DOMAIN cl.simple_lanes =>
                     cl.simple_lanes[Str(lane)] = Covering(lane)[1]
              /\ Str(lane) \in DOMAIN cl.complex_lanes =>
                     InSeq(cl.complex_lanes[Str(lane)].demux_id, Covering(lane))

\* An aggregation with a lane that only a 10X SubJob has, on two rows, and a
\* lane that three SubJobs share
C21_Witness ==
    /\ aggStatus # "idle"
    /\ \E lane \in CoveredLanes :
          /\ Len(Covering(lane)) = 1
          /\ subjobs[Covering(lane)[1] + 1].kind = "tenx"
          /\ Str(lane) \in DOMAIN ClassifyLanes(globOrder).simple_lanes
    /\ \E lane \in CoveredLanes :
          /\ Len(Covering(lane)) = 3
          /\ Str(lane) \in DOMAIN ClassifyLanes(globOrder).complex_lanes

(***************************************************************************)
(* Properties of the links _process_demux_with_complex_lanes creates.      *)
(***************************************************************************)
\* The SubJobs whose Undetermined FastQ file of the lane is the target of a
\* link under Demultiplexing
UndeterminedLinkedFrom(lane) ==
    {e.from : e \in {x \in demuxFs : /\ x.from >= 0
                                     /\ x.target = <<UndeterminedFastq(Str(lane))>>}}

\* An aggregation of several SubJobs has run
MultiAggregated == attempts > 0 /\ Len(Glob) >= 2

(***************************************************************************)
(* C22 as stated: in an aggregation of several SubJobs the Undetermined    *)
(* FastQ files of a lane are linked from at most one SubJob, the one the   *)
(* lane is mapped to in simple_lanes; a SubJob covering a lane another     *)
(* SubJob covers too contributes no Undetermined file of that lane.        *)
(***************************************************************************)
C22_Original ==
    MultiAggregated =>
        \A lane \in Lanes :
            LET cl == ClassifyLanes(Glob)
                from == UndeterminedLinkedFrom(lane)
            IN /\ Cardinality(from) <= 1
               /\ from # {} => /\ Str(lane) \in DOMAIN cl.simple_lanes
                               /\ from = {cl.simple_lanes[Str(lane)]}
               /\ Len(Covering(lane)) >= 2 => from = {}

\* The same for the runs without a no-index lane
C22_WithoutNoIndexLanes ==
    (MultiAggregated /\ NoIndexLanes = <<>>) =>
        \A lane \in Lanes :
            LET cl == ClassifyLanes(Glob)
                from == UndeterminedLinkedFrom(lane)
            IN /\ Cardinality(from) <= 1
               /\ from # {} => /\ Str(lane) \in DOMAIN cl.simple_lanes
                               /\ from = {cl.simple_lanes[Str(lane)]}
               /\ Len(Covering(lane)) >= 2 => from = {}

(***************************************************************************)
(* The aggregation over reports whose rows come in other orders.  The      *)
(* order of the rows of laneBarcode.html is the demultiplexer's: the row   *)
(* of Undetermined of a lane comes after the rows of the samples, or       *)
(* before them.                                                            *)
(***************************************************************************)
\* The rows of every lane with the row of Undetermined first
UndeterminedFirst(subjob) ==
    LET lanes == SetToSeq(subjob.cover)
        rows == subjob.laneBarcode_html
    IN [subjob EXCEPT !.laneBarcode_html =
            Flatten([j \in 1..Len(lanes) |->
                LET block == SelectSeq(rows, LAMBDA row : row.Lane = Str(lanes[j]))
                IN SelectSeq(block, IsUndeterminedRow)
                   \o SelectSeq(block, IsSampleRow)])]

\* The orders of the rows in the reports of a run: in every report the
\* samples first, in every report Undetermined first, or Undetermined first
\* in the reports of the SubJobs with an even number
RowOrders == {"samples_first", "undetermined_first", "alternating"}

InRowOrder(subjob, order, id) ==
    IF order = "undetermined_first" \/ (order = "alternating" /\ id % 2 = 0)
    THEN UndeterminedFirst(subjob)
    ELSE subjob

InitReports ==
    /\ \E n \in 1..MaxSubJobs :
          \E c \in [1..n -> IndexKinds \X CoverChoices], order \in RowOrders :
              subjobs = [k \in 1..n |->
                            InRowOrder(SubJobOf(k - 1, c[k][1], c[k][2]), order, k - 1)]
    /\ globOrder \in GlobOrders(Len(subjobs))
    /\ aggStatus = "idle"
    /\ merged = <<>>
    /\ elemStatus = "idle"
    /\ elemStart = <<>>
    /\ elemUnassigned = <<>>
    /\ IdleMask
    /\ IdleRun
    /\ IdleSheet
    /\ IdleStatus
    /\ IdleTransfer

SpecReports == InitReports /\ [][NextAgg]_vars

\* The rows of Undetermined of a lane in the merged laneBarcode report
MergedUndeterminedRows(lane) ==
    SelectSeq(merged.laneBarcode,
              LAMBDA row : row.Lane = Str(lane) /\ IsUndeterminedRow(row))

\* The sum of the Yield of the rows of the samples of a lane
SampleYield(lane) ==
    SumOf([k \in 1..Len(merged.laneBarcode) |->
        IF merged.laneBarcode[k].Lane = Str(lane) /\ IsSampleRow(merged.laneBarcode[k])
        THEN IntOf(merged.laneBarcode[k].Yield_Mbases) ELSE 0])

\* One row of Undetermined, with the residual of the lane
OneResidualRow(lane) ==
    LET rows == MergedUndeterminedRows(lane) IN
    /\ Len(rows) = 1
    /\ IntOf(rows[1].PF_Clusters)
          = MergedLaneTotal(lane)
              - ClustersOfRows(merged.laneBarcode, lane, IsSampleRow)
    /\ IntOf(rows[1].Yield_Mbases)
          = IntOf(LastOfLane(merged.lane, Str(lane)).Yield_Mbases) - SampleYield(lane)

\* Every report of the run lists the rows in the same order
UniformOrder ==
    \/ \A n \in 1..Len(subjobs) : subjobs[n] = UndeterminedFirst(subjobs[n])
    \/ \A n \in 1..Len(subjobs) :
          subjobs[n].laneBarcode_html
              = LaneBarcodeHtmlOf(subjobs[n].samplesheet, SetToSeq(subjobs[n].cover))

(***************************************************************************)
(* C23 as stated: after the aggregation the merged laneBarcode report has  *)
(* exactly one row of Undetermined for every lane covered by several       *)
(* SubJobs, whatever the number of SubJobs and the order of the rows of    *)
(* their reports, and its PF Clusters and Yield are the lane total less    *)
(* the totals of the samples.                                              *)
(***************************************************************************)
C23_Original == MultiDone => \A lane \in SharedLanes : OneResidualRow(lane)

\* The same for the lanes that are not no-index lanes, when the reports of
\* the run list their rows in the same order
C23_UniformOrderOutsideNoIndexLanes ==
    (MultiDone /\ UniformOrder) =>
        \A lane \in SharedLanes : ~ IsNoIndexLane(lane) => OneResidualRow(lane)

\* A shared lane that is not a no-index lane, with two rows of Undetermined
C23_TwoRows ==
    /\ MultiDone
    /\ \E lane \in SharedLanes :
          ~ IsNoIndexLane(lane) /\ Len(MergedUndeterminedRows(lane)) = 2

\* The FastQ file of a sample in Demultiplexing_<id> is linked under
\* Demultiplexing/<project>/<sample>/
SampleFastqLinked(id, project, sample, file) ==
    \E e \in demuxFs : /\ e.from = id
                       /\ e.target = <<project, sample, file>>
                       /\ Take(e.path, 2) = <<project, sample>>

\* Every FastQ file of the samples of a SubJob is linked
AllFastqLinked(id) ==
    \A j \in 1..Len(ProjectsOf(id)) :
        LET project == ProjectsOf(id)[j] IN
        \A m \in 1..Len(SamplesOf(id, project)) :
            LET sample == SamplesOf(id, project)[m] IN
            \A f \in 1..Len(FastqOf(id, project, sample)) :
                SampleFastqLinked(id, project, sample, FastqOf(id, project, sample)[f])

\* The last aggregation was one of several SubJobs and ended without error
MultiAggregatedDone == MultiAggregated /\ aggStatus = "done"

(***************************************************************************)
(* C24 as stated: after an aggregation of several SubJobs every FastQ file *)
(* a SubJob produced for a (project, sample) pair is linked under the      *)
(* directory of the pair, for samples pooled in several lanes and for the  *)
(* samples of a SubJob that covers a no-index lane as well.                *)
(***************************************************************************)
C24_Original ==
    MultiAggregatedDone => \A k \in 1..Len(Glob) : AllFastqLinked(Glob[k])

\* The same for the SubJobs that cover no no-index lane
C24_SubJobsWithoutNoIndexLane ==
    MultiAggregatedDone =>
        \A k \in 1..Len(Glob) :
            (\A i \in 1..Len(LanesOf(Glob[k])) :
                 ~ InSeq(LanesOf(Glob[k])[i], NoIndexLanes))
               => AllFastqLinked(Glob[k])

(***************************************************************************)
(* The status of a run: Run.get_run_status over the sentinel files of the  *)
(* run directory.                                                          *)
(***************************************************************************)
\* The paths get_run_status looks for
Sentinels == {"RTAComplete.txt", "CopyComplete.txt", "Demultiplexing",
              "Demultiplexing/Stats/Stats.json"}

\* The contents a run directory can have: Stats.json lies in Demultiplexing
RunDirs == {dir \in SUBSET Sentinels :
               "Demultiplexing/Stats/Stats.json" \in dir => "Demultiplexing" \in dir}

\* _is_demultiplexing_done
is_demultiplexing_done(dir) == "Demultiplexing/Stats/Stats.json" \in dir

\* _is_demultiplexing_started
is_demultiplexing_started(dir) == "Demultiplexing" \in dir

\* _is_sequencing_done
is_sequencing_done(dir) == "RTAComplete.txt" \in dir /\ "CopyComplete.txt" \in dir

\* get_run_status with the test of the Demultiplexing directory before the
\* test of the end of the sequencing
get_run_status_started_first(dir) ==
    LET demux_started == is_demultiplexing_started(dir)
        demux_done == is_demultiplexing_done(dir)
        sequencing_done == is_sequencing_done(dir)
    IN IF sequencing_done /\ demux_done THEN "COMPLETED"
       ELSE IF demux_started /\ ~ demux_done THEN "IN_PROGRESS"
       ELSE IF sequencing_done /\ ~ demux_started THEN "TO_START"
       ELSE IF ~ sequencing_done THEN "SEQUENCING"
       ELSE "RuntimeError"

\* get_run_status: the status it returns, or the error it raises
get_run_status(dir) ==
    LET demux_started == is_demultiplexing_started(dir)
        demux_done == is_demultiplexing_done(dir)
        sequencing_done == is_sequencing_done(dir)
    IN IF sequencing_done /\ demux_done THEN "COMPLETED"
       ELSE IF sequencing_done /\ demux_started /\ ~ demux_done THEN "IN_PROGRESS"
       ELSE IF sequencing_done /\ ~ demux_started THEN "TO_START"
       ELSE IF ~ sequencing_done THEN "SEQUENCING"
       ELSE "RuntimeError"

InitStatus ==
    /\ runFiles \in RunDirs
    /\ polledFiles = {}
    /\ runStatus = "none"
    /\ IdleMask
    /\ IdleAgg
    /\ IdleRun
    /\ IdleSheet
    /\ IdleTransfer

\* The sequencer, the demultiplexing or the aggregation writes a file
SentinelWritten ==
    /\ \E file \in Sentinels \ runFiles :
          /\ runFiles \cup {file} \in RunDirs
          /\ runFiles' = runFiles \cup {file}
    /\ UNCHANGED <<polledFiles, runStatus>>
    /\ UNCHANGED maskVars
    /\ UNCHANGED aggVars
    /\ UNCHANGED runVars
    /\ UNCHANGED sheetVars
    /\ UNCHANGED transferVars

\* A file or Demultiplexing is removed from the run directory
SentinelRemoved ==
    /\ \E file \in runFiles :
          /\ runFiles \ {file} \in RunDirs
          /\ runFiles' = runFiles \ {file}
    /\ UNCHANGED <<polledFiles, runStatus>>
    /\ UNCHANGED maskVars
    /\ UNCHANGED aggVars
    /\ UNCHANGED runVars
    /\ UNCHANGED sheetVars
    /\ UNCHANGED transferVars

\* One call of get_run_status
CallGetRunStatus ==
    /\ runStatus' = get_run_status(runFiles)
    /\ polledFiles' = runFiles
    /\ UNCHANGED runFiles
    /\ UNCHANGED maskVars
    /\ UNCHANGED aggVars
    /\ UNCHANGED runVars
    /\ UNCHANGED sheetVars
    /\ UNCHANGED transferVars

NextStatus == SentinelWritten \/ SentinelRemoved \/ CallGetRunStatus

SpecStatus == InitStatus /\ [][NextStatus]_vars

Statuses == {"SEQUENCING", "TO_START", "IN_PROGRESS", "COMPLETED"}

LaunchSteps(job, n) ==
    <<[step |-> "SampleSheet_n.csv", n |-> n], [step |-> "Demultiplexing", n |-> n]>>
    \o (IF job.started
        THEN <<[step |-> "Demultiplexing_n", n |-> n],
               [step |-> "call_external_command_detached", n |-> n]>>
        ELSE <<>>)

\* The steps of one call of demultiplex_run
LaunchLog(subJobs) ==
    Flatten([k \in 1..Len(subJobs) |-> LaunchSteps(subJobs[k], k - 1)])

(***************************************************************************)
(* C26 as stated: SampleSheet_<n>.csv and Demultiplexing_<n> of every      *)
(* SubJob of a run are created before any demultiplexer of the run is      *)
(* started.                                                                *)
(***************************************************************************)
C26_Original ==
    demuxStatus # "none" =>
        LET log == LaunchLog(jobs) IN
        \A i, j \in 1..Len(log) :
            (/\ log[i].step = "call_external_command_detached"
             /\ log[j].step \in {"SampleSheet_n.csv", "Demultiplexing_n"})
                => j < i

\* The files of a SubJob are created before its own demultiplexer starts
C26_OwnFilesBeforeStart ==
    demuxStatus # "none" =>
        LET log == LaunchLog(jobs) IN
        \A i, j \in 1..Len(log) :
            (/\ log[i].step = "call_external_command_detached"
             /\ log[j].step \in {"SampleSheet_n.csv", "Demultiplexing_n"}
             /\ log[j].n = log[i].n)
                => j < i

(***************************************************************************)
(* C27 as stated: once an aggregation of a run has ended without error, no *)
(* later call of check_run_status aggregates the run again.                *)
(***************************************************************************)
C27_Original == [][aggStatus = "done" => ~ AggregationStep]_vars

\* The same when the aggregation has left a Stats/Stats.json that exists
C27_WhenStatsJsonExists ==
    [][(aggStatus = "done" /\ IsDemultiplexingDone) => ~ AggregationStep]_vars

(***************************************************************************)
(* The priority SubJob of a lane and the order of the samplesheets.        *)
(***************************************************************************)
\* The orders in which glob can return the samplesheets of the run
AllGlobOrders ==
    LET ids == 0..(Len(subjobs) - 1) IN
    {order \in [1..Len(subjobs) -> ids] : \A id \in ids : InSeq(id, order)}

\* No two SubJobs of the lane have the same priority
NoTie(lane) ==
    \A i, j \in 1..Len(Covering(lane)) :
        i # j => LET a == IndexLengths(Covering(lane)[i], lane)
                     b == IndexLengths(Covering(lane)[j], lane)
                 IN HigherPriority(a, b) \/ HigherPriority(b, a)

(***************************************************************************)
(* C28: when no two SubJobs of a shared lane tie, the priority SubJob      *)
(* _classify_lanes selects for the lane is the same in whatever order the  *)
(* samplesheets are enumerated: the SubJob of the lane that is maximal in  *)
(* (both index lengths nonzero, sum of the index lengths).                 *)
(***************************************************************************)
C28_PriorityIndependentOfOrder ==
    aggStatus # "idle" =>
        \A lane \in SharedLanes :
            NoTie(lane) =>
                \A order \in AllGlobOrders :
                    LET p == ClassifyLanes(order).complex_lanes[Str(lane)] IN
                    /\ p.demux_id = Authoritative(lane)
                    /\ InSeq(p.demux_id, Covering(lane))
                    /\ p.lengths = IndexLengths(p.demux_id, lane)
                    /\ \A k \in 1..Len(Covering(lane)) :
                          Covering(lane)[k] # p.demux_id =>
                              HigherPriority(p.lengths,
                                             IndexLengths(Covering(lane)[k], lane))

\* A lane of three SubJobs without a tie, two of them with a zero index
\* length, where the priority SubJob is the one in the middle in glob order
C28_Witness ==
    /\ aggStatus # "idle"
    /\ \E lane \in SharedLanes :
          /\ Len(Covering(lane)) = 3
          /\ NoTie(lane)
          /\ Authoritative(lane) = Covering(lane)[2]
          /\ HasZero(IndexLengths(Covering(lane)[1], lane))
          /\ HasZero(IndexLengths(Covering(lane)[3], lane))

(***************************************************************************)
(* The no-index lanes of the aggregation and the samples of the sample     *)
(* sheet.  check_run_status runs in a later call of the program: its       *)
(* self.runParserObj.samplesheet.data are the rows of SampleSheet.csv as   *)
(* _copy_samplesheet wrote them.                                           *)
(***************************************************************************)
\* noindex_lanes of _classify_lanes, over the rows of SampleSheet.csv
noindex_lanes_of(data) ==
    {data[k].Lane : k \in {i \in 1..Len(data) :
                              \/ Upper(data[i].index) = NoIndexStr
                              \/ (data[i].index = <<>> /\ data[i].index2 = <<>>)}}

\* The lanes for which the aggregation takes the branches "special case
\* that when we assign fake indexes for NoIndex samples"
TreatedAsNoIndex ==
    IF IndexCyclesOf(runSetup) # <<0, 0>>
    THEN noindex_lanes_of(GenerateCleanSamplesheet(samplesheet))
    ELSE {}

\* The classifier typed the sample of the row NOINDEX and the rows written
\* for it have the synthetic index
TypedNoIndexWithSyntheticIndex(j) ==
    /\ sample_table[j].sample_type = "NOINDEX"
    /\ WrittenFor(j) # {}
    /\ \A kn \in WrittenFor(j) :
           LET r == jobs[kn[1]].rows[kn[2]] IN
           /\ r.index = Repeat("T", IndexCyclesOf(runSetup)[1])
           /\ r.index2 = Repeat("A", IndexCyclesOf(runSetup)[2])

(***************************************************************************)
(* C29 as stated: on a run with index cycles the aggregation treats a lane *)
(* as a no-index lane only if the classifier typed its sample NOINDEX and  *)
(* the samplesheet generator wrote a synthetic index for it; a lane whose  *)
(* sample has empty index and index2 is not treated as a no-index lane.    *)
(***************************************************************************)
C29_Original ==
    demuxStatus = "returned" =>
        \A j \in 1..Len(samplesheet) :
            /\ samplesheet[j].Lane \in TreatedAsNoIndex
                  => \E i \in 1..Len(samplesheet) :
                        /\ samplesheet[i].Lane = samplesheet[j].Lane
                        /\ TypedNoIndexWithSyntheticIndex(i)
            /\ (/\ samplesheet[j].index = <<>>
                /\ samplesheet[j].index2 = <<>>
                /\ \A i \in 1..Len(samplesheet) :
                       samplesheet[i].Lane = samplesheet[j].Lane
                          => Upper(samplesheet[i].index) # NoIndexStr)
                  => samplesheet[j].Lane \notin TreatedAsNoIndex

\* A sample with empty index and index2 on a run with index cycles, whose
\* SubJob was started and whose lane is treated as a no-index lane
C29_EmptyIndexTreatedAsNoIndex ==
    /\ demuxStatus = "returned"
    /\ Len(samplesheet) = 1
    /\ samplesheet[1].index = <<>> /\ samplesheet[1].index2 = <<>>
    /\ Len(jobs) = 1 /\ jobs[1].started
    /\ sample_table[1].sample_type # "NOINDEX"
    /\ samplesheet[1].Lane \in TreatedAsNoIndex

(***************************************************************************)
(* Transfer of a Nanopore run from the instrument                          *)
(* (taca/nanopore/instrument_transfer.py): handle_runs is called for the   *)
(* run by every run of the script; while the run is sequencing it starts   *)
(* rsyncs in the background, and when the run has a final_summary file it  *)
(* calls final_sync_and_archive.                                           *)
(***************************************************************************)
\* args.nas_runs and args.miarka_runs
Destinations == {"nas_runs", "miarka_runs"}

\* The return codes of rsync: success, and "partial transfer due to error"
ReturnCodes == {0, 23}

\* sync_to_storage(background=False) where a skipped rsync counts as done
sync_to_storage_skipped_is_true(destination, running, returncode) ==
    IF destination \in running
    THEN [ran |-> FALSE, returncode |-> 0, value |-> TRUE]
    ELSE [ran |-> TRUE, returncode |-> returncode, value |-> returncode = 0]

\* sync_to_storage(background=False): whether rsync was run, its return
\* code, and the value returned.  running is what rsync_is_running sees.
sync_to_storage(destination, running, returncode) ==
    IF destination \in running
    THEN [ran |-> FALSE, returncode |-> 0, value |-> FALSE]
    ELSE [ran |-> TRUE, returncode |-> returncode, value |-> returncode = 0]

RsyncStep(destination, r) ==
    [op |-> "rsync", destination |-> destination, ran |-> r.ran,
     returncode |-> r.returncode]

IndicatorStep ==
    [op |-> "write_finished_indicator", destination |-> "", ran |-> TRUE,
     returncode |-> 0]

ArchiveStep ==
    [op |-> "archive_finished_run", destination |-> "", ran |-> TRUE,
     returncode |-> 0]

\* final_sync_and_archive: its steps in turn.  running[k] is what
\* rsync_is_running sees at the k-th call of sync_to_storage and
\* returncode[k] what the rsync of that call returns if it is run.
final_sync_and_archive(running, returncode) ==
    LET sync(k) == sync_to_storage(IF k \in {1, 3} THEN "nas_runs" ELSE "miarka_runs",
                                   running[k], returncode[k])
        step(k) == RsyncStep(IF k \in {1, 3} THEN "nas_runs" ELSE "miarka_runs", sync(k))
    IN IF ~ sync(1).value THEN <<step(1)>>
       ELSE IF ~ sync(2).value THEN <<step(1), step(2)>>
       ELSE <<step(1), step(2), IndicatorStep>>
            \o (IF ~ sync(3).value THEN <<step(3)>>
                ELSE IF ~ sync(4).value THEN <<step(3), step(4)>>
                ELSE <<step(3), step(4), ArchiveStep>>)

InitTransfer ==
    /\ seqFinished = FALSE
    /\ syncing = {}
    /\ indicator = FALSE
    /\ runAt = "instrument"
    /\ transferLog = <<>>
    /\ transferCalls = 0
    /\ IdleMask
    /\ IdleAgg
    /\ IdleRun
    /\ IdleSheet
    /\ IdleStatus

\* handle_runs for a run that is sequencing: an rsync to each destination is
\* started in the background unless one is running
HandleSequencingRun ==
    /\ ~ seqFinished
    /\ runAt = "instrument"
    /\ syncing' = Destinations
    /\ UNCHANGED <<seqFinished, indicator, runAt, transferLog, transferCalls>>
    /\ UNCHANGED maskVars
    /\ UNCHANGED aggVars
    /\ UNCHANGED runVars
    /\ UNCHANGED sheetVars
    /\ UNCHANGED statusVars

\* MinKNOW writes final_summary_*.txt
SequencingFinishes ==
    /\ ~ seqFinished
    /\ seqFinished' = TRUE
    /\ UNCHANGED <<syncing, indicator, runAt, transferLog, transferCalls>>
    /\ UNCHANGED maskVars
    /\ UNCHANGED aggVars
    /\ UNCHANGED runVars
    /\ UNCHANGED sheetVars
    /\ UNCHANGED statusVars

\* An rsync started in the background ends
BackgroundRsyncEnds ==
    /\ \E destination \in syncing : syncing' = syncing \ {destination}
    /\ UNCHANGED <<seqFinished, indicator, runAt, transferLog, transferCalls>>
    /\ UNCHANGED maskVars
    /\ UNCHANGED aggVars
    /\ UNCHANGED runVars
    /\ UNCHANGED sheetVars
    /\ UNCHANGED statusVars

\* handle_runs for a run that has finished: final_sync_and_archive.  The
\* rsyncs in the background may end while it runs.
FinalSyncAndArchive ==
    /\ seqFinished
    /\ runAt = "instrument"
    /\ transferCalls < MaxTransfers
    /\ \E running \in [1..4 -> SUBSET syncing], returncode \in [1..4 -> ReturnCodes] :
          /\ \A k \in 1..3 : running[k + 1] \subseteq running[k]
          /\ LET steps == final_sync_and_archive(running, returncode) IN
             /\ transferLog' = transferLog
                    \o [k \in 1..Len(steps) |->
                           [call |-> transferCalls + 1, step |-> steps[k]]]
             /\ indicator' = (indicator \/ \E k \in 1..Len(steps) : steps[k] = IndicatorStep)
             /\ runAt' = IF \E k \in 1..Len(steps) : steps[k] = ArchiveStep
                         THEN "archive" ELSE runAt
          /\ syncing' = running[4]
    /\ transferCalls' = transferCalls + 1
    /\ UNCHANGED seqFinished
    /\ UNCHANGED maskVars
    /\ UNCHANGED aggVars
    /\ UNCHANGED runVars
    /\ UNCHANGED sheetVars
    /\ UNCHANGED statusVars

NextTransfer ==
    \/ HandleSequencingRun
    \/ SequencingFinishes
    \/ BackgroundRsyncEnds
    \/ FinalSyncAndArchive

SpecTransfer == InitTransfer /\ [][NextTransfer]_vars

\* The steps of a call of final_sync_and_archive
StepsOfCall(c) ==
    LET entries == SelectSeq(transferLog, LAMBDA e : e.call = c)
    IN [k \in 1..Len(entries) |-> entries[k].step]

\* The step is an rsync to the destination that ran and returned 0
RsyncSucceeded(step, destination) ==
    /\ step.op = "rsync"
    /\ step.destination = destination
    /\ step.ran
    /\ step.returncode = 0

(***************************************************************************)
(* C30: the run is moved to the archive only by a call of                  *)
(* final_sync_and_archive in which the rsync to the NAS and the rsync to   *)
(* the cluster succeeded, .sync_finished was written after them, and both  *)
(* rsyncs succeeded again after that; in a call where an rsync fails or is *)
(* skipped because an rsync of the run is running, the run is not moved.   *)
(***************************************************************************)
C30_ArchivedAfterBothSyncsTwice ==
    /\ runAt = "archive"
          <=> \E k \in 1..Len(transferLog) : transferLog[k].step = ArchiveStep
    /\ (\E k \in 1..Len(transferLog) : transferLog[k].step = IndicatorStep)
          => indicator
    /\ \A c \in 1..transferCalls :
          LET steps == StepsOfCall(c) IN
          /\ (\E k \in 1..Len(steps) : steps[k] = ArchiveStep)
                => /\ Len(steps) = 6
                   /\ RsyncSucceeded(steps[1], "nas_runs")
                   /\ RsyncSucceeded(steps[2], "miarka_runs")
                   /\ steps[3] = IndicatorStep
                   /\ RsyncSucceeded(steps[4], "nas_runs")
                   /\ RsyncSucceeded(steps[5], "miarka_runs")
                   /\ steps[6] = ArchiveStep
          /\ (\E k \in 1..Len(steps) :
                 steps[k].op = "rsync" /\ ~ (steps[k].ran /\ steps[k].returncode = 0))
                => /\ \A k \in 1..Len(steps) : steps[k] # ArchiveStep
                   /\ c = transferCalls => runAt = "instrument"

\* The run is archived by the third call: in the first call the rsync to
\* the cluster was skipped for an rsync that was running, in the second the
\* rsync of the indicator to the NAS failed
C30_Witness ==
    /\ runAt = "archive"
    /\ transferCalls = 3
    /\ Len(StepsOfCall(1)) = 2
    /\ ~ StepsOfCall(1)[2].ran
    /\ Len(StepsOfCall(2)) = 4
    /\ StepsOfCall(2)[4].returncode # 0

=============================================================================
